---- MODULE Spec2Model ----
(***************************************************************************)
(* Model of argsparser.cpp (include/argsparser.hpp): the typed Argument    *)
(* specialisations, the Parser registry (addArgument,                      *)
(* addPositionalArgument, setValidator) and Parser::parse.                 *)
(*                                                                         *)
(* A std::string is a sequence of one-character strings.  Literal pieces   *)
(* of an error message ("Unknown option: ") are kept as one element, so    *)
(* that message + token is sequence concatenation.  argv holds the tokens  *)
(* argv[1..argc-1]; argv[0], the program name, is never read by parse.     *)
(*                                                                         *)
(* Integer values are exact decimal numerals [neg, mag] (mag: digits       *)
(* without leading zeros, <<>> for zero), so that the 64-bit kinds are     *)
(* modelled at their real width.  Floating values are exact decimals       *)
(* [neg, mant, exp] standing for 0.mant * 10^exp.                          *)
(***************************************************************************)
EXTENDS Integers, Sequences, FiniteSets, TLC

\* ------------------------------------------------------------------------
\* Strings
\* ------------------------------------------------------------------------

DigitChars == <<"0", "1", "2", "3", "4", "5", "6", "7", "8", "9">>

IsDigit(c) == \E d \in 1..10 : DigitChars[d] = c

DigitVal(c) == (CHOOSE d \in 1..10 : DigitChars[d] = c) - 1

\* isspace() of the C locale, as used by strtol/strtoul/strtof to skip the
\* leading blanks of the input.
IsSpace(c) == c \in {" ", "\t", "\n"}

\* std::string::substr(pos) with a 0-based pos.
SubStr(s, pos) == SubSeq(s, pos + 1, Len(s))

\* std::string::substr(pos, n) with a 0-based pos.
SubStrN(s, pos, n) ==
  SubSeq(s, pos + 1, IF pos + n > Len(s) THEN Len(s) ELSE pos + n)

\* std::string::find(ch): 0-based position of the first ch, or npos (-1).
Find(s, ch) ==
  IF \E k \in 1..Len(s) : s[k] = ch
  THEN (CHOOSE k \in 1..Len(s) : s[k] = ch /\ \A j \in 1..(k - 1) : s[j] # ch) - 1
  ELSE -1

\* ------------------------------------------------------------------------
\* Exact decimal numerals
\* ------------------------------------------------------------------------

RECURSIVE StripZeros(_)
StripZeros(m) ==
  IF m = <<>> THEN <<>>
  ELSE IF m[1] = 0 THEN StripZeros(Tail(m)) ELSE m

RECURSIVE StripTrailingZeros(_)
StripTrailingZeros(m) ==
  IF m = <<>> THEN <<>>
  ELSE IF m[Len(m)] = 0 THEN StripTrailingZeros(SubSeq(m, 1, Len(m) - 1)) ELSE m

\* a < b for two magnitudes without leading zeros.
MagLess(a, b) ==
  \/ Len(a) < Len(b)
  \/ /\ Len(a) = Len(b)
     /\ \E k \in 1..Len(a) :
          /\ a[k] < b[k]
          /\ \A j \in 1..(k - 1) : a[j] = b[j]

MagLeq(a, b) == a = b \/ MagLess(a, b)

\* a - b for magnitudes with b <= a (schoolbook subtraction, right to left).
RECURSIVE MagSubRev(_, _, _)
MagSubRev(a, b, borrow) ==
  IF a = <<>> THEN <<>>
  ELSE LET d == a[Len(a)] - (IF b = <<>> THEN 0 ELSE b[Len(b)]) - borrow
       IN MagSubRev(SubSeq(a, 1, Len(a) - 1),
                    IF b = <<>> THEN <<>> ELSE SubSeq(b, 1, Len(b) - 1),
                    IF d < 0 THEN 1 ELSE 0)
            \o <<IF d < 0 THEN d + 10 ELSE d>>

MagSub(a, b) == StripZeros(MagSubRev(a, b, 0))

MkNum(neg, mag) == [neg |-> neg /\ mag # <<>>, mag |-> mag]

Zero == MkNum(FALSE, <<>>)

\* Value of a small non-negative magnitude as a TLC integer.
RECURSIVE MagToInt(_)
MagToInt(m) ==
  IF m = <<>> THEN 0 ELSE 10 * MagToInt(SubSeq(m, 1, Len(m) - 1)) + m[Len(m)]

\* <cstdint> limits, as magnitudes.
INT16_MAX == <<3, 2, 7, 6, 7>>
INT16_MIN == <<3, 2, 7, 6, 8>>
INT32_MAX == <<2, 1, 4, 7, 4, 8, 3, 6, 4, 7>>
INT32_MIN == <<2, 1, 4, 7, 4, 8, 3, 6, 4, 8>>
UINT32_MAX == <<4, 2, 9, 4, 9, 6, 7, 2, 9, 5>>
INT64_MAX == <<9, 2, 2, 3, 3, 7, 2, 0, 3, 6, 8, 5, 4, 7, 7, 5, 8, 0, 7>>
INT64_MIN == <<9, 2, 2, 3, 3, 7, 2, 0, 3, 6, 8, 5, 4, 7, 7, 5, 8, 0, 8>>
UINT64_MAX == <<1, 8, 4, 4, 6, 7, 4, 4, 0, 7, 3, 7, 0, 9, 5, 5, 1, 6, 1, 5>>
\* 2^64, the modulus of unsigned long / unsigned long long on LP64.
TwoPow64 == <<1, 8, 4, 4, 6, 7, 4, 4, 0, 7, 3, 7, 0, 9, 5, 5, 1, 6, 1, 6>>

\* ------------------------------------------------------------------------
\* The C conversions: strtol / strtoll / strtoul / strtoull / strtof / strtod
\* ------------------------------------------------------------------------

\* Index (1-based) of the first character of s at or after p that is not
\* a blank; Len(s) + 1 when there is none.
RECURSIVE SkipSpace(_, _)
SkipSpace(s, p) ==
  IF p <= Len(s) /\ IsSpace(s[p]) THEN SkipSpace(s, p + 1) ELSE p

\* Index just after the longest run of digits that starts at p.
RECURSIVE SkipDigits(_, _)
SkipDigits(s, p) ==
  IF p <= Len(s) /\ IsDigit(s[p]) THEN SkipDigits(s, p + 1) ELSE p

DigitsOf(s, from, to) == [k \in 1..(to - from) |-> DigitVal(s[from + k - 1])]

\* Length (0 or 1) of the optional sign at p.
SignLen(s, p) == IF p <= Len(s) /\ s[p] \in {"+", "-"} THEN 1 ELSE 0

\* The optional sign at p is a minus.
IsMinus(s, p) == p <= Len(s) /\ s[p] = "-"

\* The digits s[p1..p2-1] of an integer numeral.  end is the 1-based index
\* the end pointer is left at; with no digit at all no conversion is
\* performed and the end pointer is the start of the string.
IntegerDigits(s, neg, p1, p2) ==
  IF p2 = p1
  THEN [end |-> 1, neg |-> FALSE, mag |-> <<>>]
  ELSE [end |-> p2, neg |-> neg, mag |-> StripZeros(DigitsOf(s, p1, p2))]

\* The optional sign at p0 and the digits after it.
SignedDigits(s, neg, p1) == IntegerDigits(s, neg, p1, SkipDigits(s, p1))

IntegerAt(s, p0) == SignedDigits(s, IsMinus(s, p0), p0 + SignLen(s, p0))

\* The common scan of the strto* integer family in base 10: blanks, an
\* optional sign, digits.
ScanInteger(s) == IntegerAt(s, SkipSpace(s, 1))

\* The numeral sc does not fit a 64-bit long.
OverflowsLL(sc) ==
  IF sc.neg THEN MagLess(INT64_MIN, sc.mag) ELSE MagLess(INT64_MAX, sc.mag)

ClampLL(sc, over) ==
  [end |-> sc.end,
   erange |-> over,
   val |-> IF over
           THEN MkNum(sc.neg, IF sc.neg THEN INT64_MIN ELSE INT64_MAX)
           ELSE MkNum(sc.neg, sc.mag)]

LLOfScan(sc) == ClampLL(sc, OverflowsLL(sc))

\* strtol / strtoll on LP64 (64-bit long): ERANGE and a clamped result when
\* the numeral is outside [LONG_MIN, LONG_MAX].
StrToLL(s) == LLOfScan(ScanInteger(s))

ClampULL(sc, over) ==
  [end |-> sc.end,
   erange |-> over,
   val |-> IF over THEN MkNum(FALSE, UINT64_MAX)
           ELSE IF sc.neg /\ sc.mag # <<>>
                THEN MkNum(FALSE, MagSub(TwoPow64, sc.mag))
           ELSE MkNum(FALSE, sc.mag)]

ULLOfScan(sc) == ClampULL(sc, MagLess(UINT64_MAX, sc.mag))

\* strtoul / strtoull on LP64: ERANGE and ULONG_MAX when the magnitude does
\* not fit; otherwise a numeral with a minus sign is negated in the unsigned
\* type, i.e. it wraps to 2^64 - mag.
StrToULL(s) == ULLOfScan(ScanInteger(s))

\* parsedValue > max || parsedValue < min for a signed target type.
OutOfSignedRange(v, minMag, maxMag) ==
  IF v.neg THEN MagLess(minMag, v.mag) ELSE MagLess(maxMag, v.mag)

\* Lexicographic a < b for two digit strings read as decimal fractions
\* 0.a and 0.b (a missing digit is 0).
RECURSIVE FracLess(_, _)
FracLess(a, b) ==
  IF b = <<>> THEN FALSE
  ELSE IF a = <<>> THEN \E k \in 1..Len(b) : b[k] # 0
  ELSE IF a[1] # b[1] THEN a[1] < b[1]
  ELSE FracLess(Tail(a), Tail(b))

\* Number of leading zeros of a digit string.
RECURSIVE LeadingZeros(_)
LeadingZeros(m) ==
  IF m # <<>> /\ m[1] = 0 THEN 1 + LeadingZeros(Tail(m)) ELSE 0

DecZero == [neg |-> FALSE, mant |-> <<>>, exp |-> 0]

NormalDec(neg, m, exp) ==
  IF m = <<>> THEN DecZero ELSE [neg |-> neg, mant |-> m, exp |-> exp]

\* The decimal 0.digits * 10^exp, normalised (mant has neither leading nor
\* trailing zeros; zero is DecZero, so -0.0 == 0.0).
MkDec(neg, digits, exp) ==
  NormalDec(neg, StripTrailingZeros(StripZeros(digits)),
            exp - LeadingZeros(digits))

\* |a| < |b| for two normalised non-zero decimals.
DecMagLess(a, b) ==
  \/ a.exp < b.exp
  \/ a.exp = b.exp /\ FracLess(a.mant, b.mant)

\* Overflow thresholds of binary32 / binary64 (values at or above round to
\* infinity) and their smallest normal values, to the digits shown.
FLT_OVER == [neg |-> FALSE, mant |-> <<3, 4, 0, 2, 8, 2, 3, 5, 6, 7, 8>>, exp |-> 39]
FLT_MIN == [neg |-> FALSE, mant |-> <<1, 1, 7, 5, 4, 9, 4, 3, 5>>, exp |-> -37]
DBL_OVER ==
  [neg |-> FALSE,
   mant |-> <<1, 7, 9, 7, 6, 9, 3, 1, 3, 4, 8, 6, 2, 3, 1, 5, 8>>, exp |-> 309]
DBL_MIN ==
  [neg |-> FALSE,
   mant |-> <<2, 2, 2, 5, 0, 7, 3, 8, 5, 8, 5, 0, 7, 2, 0, 1, 4>>, exp |-> -307]

\* The exponent digits s[q1..q2-1] after the 'e' at p3: an exponent part
\* without a digit is not consumed.
ExponentDigits(s, p3, q1, q2) ==
  IF q2 > q1
  THEN [end |-> q2,
        e |-> (IF IsMinus(s, p3 + 1) THEN -1 ELSE 1)
                * MagToInt(StripZeros(DigitsOf(s, q1, q2)))]
  ELSE [end |-> p3, e |-> 0]

ExponentAt(s, p3, q1) == ExponentDigits(s, p3, q1, SkipDigits(s, q1))

\* The optional exponent part at p3.
ExponentPart(s, p3) ==
  IF p3 <= Len(s) /\ s[p3] \in {"e", "E"}
  THEN ExponentAt(s, p3, p3 + 1 + SignLen(s, p3 + 1))
  ELSE [end |-> p3, e |-> 0]

\* Index just after the optional fraction ".digits" at p2.
FractionEnd(s, p2) ==
  IF p2 <= Len(s) /\ s[p2] = "." THEN SkipDigits(s, p2 + 1) ELSE p2

\* errno == ERANGE: overflow, or a non-zero value below the smallest normal
\* value.
FloatRange(end, v, over, min) ==
  [end |-> end,
   erange |-> v.mant # <<>> /\ (~DecMagLess(v, over) \/ DecMagLess(v, min)),
   val |-> v]

FloatValue(neg, intDigits, fracDigits, ex, over, min) ==
  IF intDigits = <<>> /\ fracDigits = <<>>
  THEN [end |-> 1, erange |-> FALSE, val |-> DecZero]
  ELSE FloatRange(ex.end,
                  MkDec(neg, intDigits \o fracDigits, Len(intDigits) + ex.e),
                  over, min)

FloatFraction(s, neg, p1, p2, p3, over, min) ==
  FloatValue(neg, DigitsOf(s, p1, p2),
             IF p3 > p2 THEN DigitsOf(s, p2 + 1, p3) ELSE <<>>,
             ExponentPart(s, p3), over, min)

FloatMantissa(s, neg, p1, p2, over, min) ==
  FloatFraction(s, neg, p1, p2, FractionEnd(s, p2), over, min)

FloatDigits(s, neg, p1, over, min) ==
  FloatMantissa(s, neg, p1, SkipDigits(s, p1), over, min)

FloatAt(s, p0, over, min) ==
  FloatDigits(s, IsMinus(s, p0), p0 + SignLen(s, p0), over, min)

\* strtof / strtod on the decimal grammar: blanks, an optional sign, digits
\* with an optional fraction (at least one digit in all), and an exponent
\* part that is consumed only when it holds a digit.  (The hexadecimal,
\* "inf" and "nan" forms are outside the model; no modelled token uses
\* them.)
ScanFloat(s, over, min) == FloatAt(s, SkipSpace(s, 1), over, min)

StrToF(s) == ScanFloat(s, FLT_OVER, FLT_MIN)

StrToD(s) == ScanFloat(s, DBL_OVER, DBL_MIN)

\* ------------------------------------------------------------------------
\* Typed arguments
\* ------------------------------------------------------------------------

Kinds == {"bool", "string", "int16", "int32", "int64", "uint32", "uint64",
          "float", "double"}

IntKinds == {"int16", "int32", "int64", "uint32", "uint64"}

FloatKinds == {"float", "double"}

\* The validators callers install (std::function<bool(T)>), by name; "none"
\* is the empty std::function.
\*   positive  value > 0              nonzero  value != 0
\*   even      value % 2 == 0         large    value > 1000000
\*   percent   0 <= value <= 100      nonempty !value.empty()
Validators == {"none", "positive", "nonzero", "even", "large", "percent",
               "nonempty"}

OneMillion == <<1, 0, 0, 0, 0, 0, 0>>

OneHundred == <<1, 0, 0>>

\* validator_(value) for an integer value.
ValidateNum(validator, v) ==
  CASE validator = "positive" -> ~v.neg /\ v.mag # <<>>
    [] validator = "nonzero" -> v.mag # <<>>
    [] validator = "even" -> v.mag = <<>> \/ v.mag[Len(v.mag)] % 2 = 0
    [] validator = "large" -> ~v.neg /\ MagLess(OneMillion, v.mag)
    [] validator = "percent" -> ~v.neg /\ MagLeq(v.mag, OneHundred)
    [] OTHER -> TRUE

\* validator_(value) for a floating value.
ValidateDec(validator, v) ==
  CASE validator = "positive" -> ~v.neg /\ v.mant # <<>>
    [] validator = "nonzero" -> v.mant # <<>>
    [] validator = "percent" ->
         ~v.neg /\ (v.mant = <<>> \/ v.exp <= 2 \/ (v.exp = 3 /\ v.mant = <<1>>))
    [] OTHER -> TRUE

\* validator_(value) for a text value.
ValidateStr(validator, v) ==
  CASE validator = "nonempty" -> v # <<>>
    [] OTHER -> TRUE

\* ArgumentBase::ArgumentBase + Argument<T>::Argument for every T but bool.
NewArgument(kind, name, shortName, required, defaultValue) ==
  [kind |-> kind, name |-> name, shortName |-> shortName,
   isRequired |-> required, isSet |-> FALSE, value |-> defaultValue,
   validator |-> "none"]

\* Mutant: a flag keeps the required mark it is constructed with.
NewBoolArgument_KeepsRequired(name, shortName, defaultValue, required) ==
  [kind |-> "bool", name |-> name, shortName |-> shortName,
   isRequired |-> required, isSet |-> FALSE, value |-> defaultValue,
   validator |-> "none"]

\* Argument<bool>::Argument(name, shortName, description, defaultValue,
\* required): the fourth parameter is the default, the fifth is ignored.
NewBoolArgument(name, shortName, defaultValue, required) ==
  [kind |-> "bool", name |-> name, shortName |-> shortName,
   isRequired |-> FALSE, isSet |-> FALSE, value |-> defaultValue,
   validator |-> "none"]

\* std::make_unique<Argument<T>>(name, shortName, description, required,
\* defaultValue): the same argument list for every T.
MakeArgument(kind, name, shortName, required, defaultValue) ==
  IF kind = "bool"
  THEN NewBoolArgument(name, shortName, required, defaultValue)
  ELSE NewArgument(kind, name, shortName, required, defaultValue)

\* return false from parse before anything is stored.
Rejected(a) == [ok |-> FALSE, arg |-> a]

\* Argument<std::string>::parse
ParseString(a, raw) ==
  IF a.validator # "none" /\ ~ValidateStr(a.validator, raw)
  THEN Rejected(a)
  ELSE [ok |-> TRUE, arg |-> [a EXCEPT !.value = raw, !.isSet = TRUE]]

\* Argument<bool>::parse
ParseBool(a, raw) ==
  [ok |-> TRUE, arg |-> [a EXCEPT !.value = TRUE, !.isSet = TRUE]]

\* The tail shared by every numeric parse: value_ is assigned, then the
\* validator runs, then isSet_ is raised.
StoreChecked(a, v, valid) ==
  IF a.validator # "none" /\ ~valid
  THEN [ok |-> FALSE, arg |-> [a EXCEPT !.value = v]]
  ELSE [ok |-> TRUE, arg |-> [a EXCEPT !.value = v, !.isSet = TRUE]]

\* Mutant: a signed parse checks errno only, not the limits of its type.
CheckSigned_NoRange(a, raw, minMag, maxMag, r) ==
  IF r.end <= Len(raw) THEN Rejected(a)
  ELSE IF r.erange THEN Rejected(a)
  ELSE StoreChecked(a, r.val, ValidateNum(a.validator, r.val))

\* The checks of a signed parse on the conversion result r.
CheckSigned(a, raw, minMag, maxMag, r) ==
  IF r.end <= Len(raw) THEN Rejected(a)
  ELSE IF r.erange \/ OutOfSignedRange(r.val, minMag, maxMag)
  THEN Rejected(a)
  ELSE StoreChecked(a, r.val, ValidateNum(a.validator, r.val))

\* Argument<int16_t>::parse, Argument<int32_t>::parse, Argument<int64_t>::parse
ParseSigned(a, raw, minMag, maxMag) ==
  CheckSigned(a, raw, minMag, maxMag, StrToLL(raw))

\* Mutant: an unsigned parse does not look at the first character.
CheckUnsigned_NoSignCheck(a, raw, maxMag, r) ==
  IF r.end <= Len(raw) THEN Rejected(a)
  ELSE IF r.erange \/ MagLess(maxMag, r.val.mag)
  THEN Rejected(a)
  ELSE StoreChecked(a, r.val, ValidateNum(a.validator, r.val))

\* The checks of an unsigned parse on the conversion result r.
CheckUnsigned(a, raw, maxMag, r) ==
  IF r.end <= Len(raw) THEN Rejected(a)
  ELSE IF r.erange \/ MagLess(maxMag, r.val.mag)
  THEN Rejected(a)
  ELSE IF raw # <<>> /\ raw[1] = "-" THEN Rejected(a)
  ELSE StoreChecked(a, r.val, ValidateNum(a.validator, r.val))

\* Argument<uint32_t>::parse, Argument<uint64_t>::parse
ParseUnsigned(a, raw, maxMag) ==
  CheckUnsigned(a, raw, maxMag, StrToULL(raw))

\* Argument<float>::parse, Argument<double>::parse
ParseFloating(a, raw, r) ==
  IF r.end <= Len(raw) THEN Rejected(a)
  ELSE IF r.erange THEN Rejected(a)
  ELSE StoreChecked(a, r.val, ValidateDec(a.validator, r.val))

\* The limits of the signed kinds.
SignedMin(kind) ==
  CASE kind = "int16" -> INT16_MIN
    [] kind = "int32" -> INT32_MIN
    [] OTHER -> INT64_MIN

SignedMax(kind) ==
  CASE kind = "int16" -> INT16_MAX
    [] kind = "int32" -> INT32_MAX
    [] OTHER -> INT64_MAX

UnsignedMax(kind) == IF kind = "uint32" THEN UINT32_MAX ELSE UINT64_MAX

\* ArgumentBase::parse, dispatched on the dynamic type.
ArgParse(a, raw) ==
  CASE a.kind = "bool" -> ParseBool(a, raw)
    [] a.kind = "string" -> ParseString(a, raw)
    [] a.kind \in {"int16", "int32", "int64"} ->
         ParseSigned(a, raw, SignedMin(a.kind), SignedMax(a.kind))
    [] a.kind \in {"uint32", "uint64"} ->
         ParseUnsigned(a, raw, UnsignedMax(a.kind))
    [] a.kind \in FloatKinds ->
         ParseFloating(a, raw,
                       ScanFloat(raw,
                                 IF a.kind = "float" THEN FLT_OVER ELSE DBL_OVER,
                                 IF a.kind = "float" THEN FLT_MIN ELSE DBL_MIN))

\* dynamic_cast<Argument<bool>*>(argument) != nullptr
IsBoolArgument(a) == a.kind = "bool"

\* ------------------------------------------------------------------------
\* Parser::parse
\* ------------------------------------------------------------------------

HelpLong == <<"-", "-", "h", "e", "l", "p">>

HelpShort == <<"-", "h">>

\* Mutant: the scan knows the long spelling only.
IsHelpToken_LongOnly(arg) == arg = HelpLong

\* arg == "--help" || arg == "-h"
IsHelpToken(arg) == arg = HelpLong \/ arg = HelpShort

\* The help scan over argv[1..argc-1].
HelpRequested(argv) == \E i \in 1..Len(argv) : IsHelpToken(argv[i])

\* isLong = (arg.length() > 1 && arg[1] == '-')
IsLong(arg) == Len(arg) > 1 /\ arg[2] = "-"

\* Mutant: the inline value keeps the '='.
SplitLongAt_KeepEquals(arg, equalPos) ==
  IF equalPos # -1
  THEN [grouped |-> FALSE, name |-> SubStrN(arg, 2, equalPos - 2),
        value |-> SubStr(arg, equalPos), hasValue |-> TRUE]
  ELSE [grouped |-> FALSE, name |-> SubStr(arg, 2),
        value |-> <<>>, hasValue |-> FALSE]

\* The long branch, equalPos being arg.find('=').
SplitLongAt(arg, equalPos) ==
  IF equalPos # -1
  THEN [grouped |-> FALSE, name |-> SubStrN(arg, 2, equalPos - 2),
        value |-> SubStr(arg, equalPos + 1), hasValue |-> TRUE]
  ELSE [grouped |-> FALSE, name |-> SubStr(arg, 2),
        value |-> <<>>, hasValue |-> FALSE]

\* The long branch: split at the first '=' when there is one.
SplitLong(arg) == SplitLongAt(arg, Find(arg, "="))

\* shortNameMap_.find(key) != end() && dynamic_cast<Argument<bool>*> == nullptr
IsNonBoolShort(key, arguments, shortNameMap) ==
  key \in DOMAIN shortNameMap /\ ~IsBoolArgument(arguments[shortNameMap[key]])

\* The isGrouped loop: every character after the dash is the key of a
\* bool argument in shortNameMap_.
IsGrouped(arg, arguments, shortNameMap) ==
  \A j \in 2..Len(arg) :
    /\ <<arg[j]>> \in DOMAIN shortNameMap
    /\ IsBoolArgument(arguments[shortNameMap[<<arg[j]>>]])

\* Mutant: the short branch never takes an inline value.
SplitShort_NextToken(arg, arguments, shortNameMap) ==
  IF Len(arg) > 2
  THEN IF IsNonBoolShort(SubStrN(arg, 1, 1), arguments, shortNameMap)
       THEN [grouped |-> FALSE, name |-> SubStrN(arg, 1, 1),
             value |-> <<>>, hasValue |-> FALSE]
       ELSE IF IsGrouped(arg, arguments, shortNameMap)
       THEN [grouped |-> TRUE, name |-> <<>>, value |-> <<>>, hasValue |-> FALSE]
       ELSE [grouped |-> FALSE, name |-> SubStr(arg, 1),
             value |-> <<>>, hasValue |-> FALSE]
  ELSE [grouped |-> FALSE, name |-> SubStr(arg, 1),
        value |-> <<>>, hasValue |-> FALSE]

\* Mutant: a token that is neither `-cREST` nor grouped flags names its
\* first character only.
SplitShort_FirstCharacter(arg, arguments, shortNameMap) ==
  IF Len(arg) > 2
  THEN IF IsNonBoolShort(SubStrN(arg, 1, 1), arguments, shortNameMap)
       THEN [grouped |-> FALSE, name |-> SubStrN(arg, 1, 1),
             value |-> SubStr(arg, 2), hasValue |-> TRUE]
       ELSE IF IsGrouped(arg, arguments, shortNameMap)
       THEN [grouped |-> TRUE, name |-> <<>>, value |-> <<>>, hasValue |-> FALSE]
       ELSE [grouped |-> FALSE, name |-> SubStrN(arg, 1, 1),
             value |-> <<>>, hasValue |-> FALSE]
  ELSE [grouped |-> FALSE, name |-> SubStr(arg, 1),
        value |-> <<>>, hasValue |-> FALSE]

\* The short branch.  grouped means "process each character as a flag".
SplitShort(arg, arguments, shortNameMap) ==
  IF Len(arg) > 2
  THEN IF IsNonBoolShort(SubStrN(arg, 1, 1), arguments, shortNameMap)
       THEN [grouped |-> FALSE, name |-> SubStrN(arg, 1, 1),
             value |-> SubStr(arg, 2), hasValue |-> TRUE]
       ELSE IF IsGrouped(arg, arguments, shortNameMap)
       THEN [grouped |-> TRUE, name |-> <<>>, value |-> <<>>, hasValue |-> FALSE]
       ELSE [grouped |-> FALSE, name |-> SubStr(arg, 1),
             value |-> <<>>, hasValue |-> FALSE]
  ELSE [grouped |-> FALSE, name |-> SubStr(arg, 1),
        value |-> <<>>, hasValue |-> FALSE]

\* "Find the argument": index into arguments_, 0 for nullptr.
FindArgument(isLong, name, longNameMap, shortNameMap) ==
  IF isLong
  THEN IF name \in DOMAIN longNameMap THEN longNameMap[name] ELSE 0
  ELSE IF name \in DOMAIN shortNameMap THEN shortNameMap[name] ELSE 0

\* (isLong ? "--" : "-") + name
OptionLabel(isLong, name) == (IF isLong THEN <<"-", "-">> ELSE <<"-">>) \o name

TrueLiteral == <<"t", "r", "u", "e">>

\* Mutant: the message names the option without its dashes.
UnknownOptionError_NoPrefix(isLong, name) == <<"Unknown option: ">> \o name

UnknownOptionError(isLong, name) ==
  <<"Unknown option: ">> \o OptionLabel(isLong, name)

\* Mutant: the message names the option without its dashes.
MissingValueError_NoPrefix(isLong, name) ==
  <<"Missing value for option: ">> \o name

MissingValueError(isLong, name) ==
  <<"Missing value for option: ">> \o OptionLabel(isLong, name)

\* Mutant: the message leaves the value out.
InvalidValueError_NoValue(isLong, name, value) ==
  <<"Invalid value for option: ">> \o OptionLabel(isLong, name)

InvalidValueError(isLong, name, value) ==
  <<"Invalid value for option: ">> \o OptionLabel(isLong, name) \o <<" = ">> \o value

InvalidFlagError(isLong, name) ==
  <<"Invalid value for flag: ">> \o OptionLabel(isLong, name)

\* i + 1 >= argc, for the token argv[i]; argc - 1 tokens follow argv[0].
NoNextToken(i, argv) == i + 1 >= Len(argv) + 1

\* One entry of the call log: token tok made the dispatcher call parse(raw)
\* on target (<<"opt", index>> or <<"pos", index>>); raw was taken from
\* token src.
LogEntry(tok, target, raw, src, ok) ==
  [tok |-> tok, target |-> target, raw |-> raw, src |-> src, ok |-> ok]

\* A return from inside parse.
Abort(stage, result, lastError, st) ==
  [stage |-> stage, result |-> result, lastError |-> lastError,
   arguments |-> st.arguments,
   positionalArguments |-> st.positionalArguments,
   positionalTokens |-> st.positionalTokens,
   log |-> st.log, visited |-> st.visited]

\* The effect on st of argument->parse(raw) having returned r, for the
\* option idx, on behalf of token tok.
Applied(st, tok, idx, raw, src, r) ==
  [ok |-> r.ok,
   st |-> [st EXCEPT !.arguments = [@ EXCEPT ![idx] = r.arg],
                     !.log = Append(@, LogEntry(tok, <<"opt", idx>>, raw,
                                                src, r.ok))]]

\* Mutant: an option that is already set keeps its value.
ApplyOption_KeepsFirst(st, tok, idx, raw, src) ==
  IF st.arguments[idx].isSet
  THEN Applied(st, tok, idx, raw, src, [ok |-> TRUE, arg |-> st.arguments[idx]])
  ELSE Applied(st, tok, idx, raw, src, ArgParse(st.arguments[idx], raw))

\* argument->parse(raw) on the option idx.
ApplyOption(st, tok, idx, raw, src) ==
  Applied(st, tok, idx, raw, src, ArgParse(st.arguments[idx], raw))

\* The grouped loop over arg[j..]: each character is applied as a flag.
RECURSIVE ApplyGrouped(_, _, _, _, _)

\* Mutant: the grouped loop stops after its first flag.
GroupedStep_Stop(arg, j, i, shortNameMap, ap) ==
  [ok |-> ap.ok, st |-> ap.st,
   lastError |-> IF ap.ok THEN <<>> ELSE InvalidFlagError(FALSE, <<arg[j]>>)]

GroupedStep(arg, j, i, shortNameMap, ap) ==
  IF ~ap.ok
  THEN [ok |-> FALSE, st |-> ap.st,
        lastError |-> InvalidFlagError(FALSE, <<arg[j]>>)]
  ELSE ApplyGrouped(arg, j + 1, i, shortNameMap, ap.st)

ApplyGrouped(arg, j, i, shortNameMap, st) ==
  IF j > Len(arg)
  THEN [ok |-> TRUE, st |-> st, lastError |-> <<>>]
  ELSE GroupedStep(arg, j, i, shortNameMap,
                   ApplyOption(st, i, shortNameMap[<<arg[j]>>], TrueLiteral, i))

\* The main loop from token i on.  st carries arguments_ as mutated so far,
\* positionalTokens (the indices of the tokens pushed to positionalValues),
\* and two history fields: log, and visited, the indices the loop variable
\* has taken.
RECURSIVE MainPass(_, _, _, _, _)

\* After the grouped flags of token i.
AfterGrouped(i, argv, longNameMap, shortNameMap, g) ==
  IF ~g.ok
  THEN Abort("main", "INVALID_VALUE", g.lastError, g.st)
  ELSE MainPass(i + 1, argv, longNameMap, shortNameMap, g.st)

\* Mutant: a flag swallows the token after it.
AfterFlag_SkipsNext(i, argv, longNameMap, shortNameMap, sp, ap) ==
  IF ~ap.ok
  THEN Abort("main", "INVALID_VALUE", InvalidFlagError(sp.isLong, sp.name), ap.st)
  ELSE MainPass(i + 2, argv, longNameMap, shortNameMap, ap.st)

\* After argument->parse("true") for the flag named by token i.
AfterFlag(i, argv, longNameMap, shortNameMap, sp, ap) ==
  IF ~ap.ok
  THEN Abort("main", "INVALID_VALUE", InvalidFlagError(sp.isLong, sp.name), ap.st)
  ELSE MainPass(i + 1, argv, longNameMap, shortNameMap, ap.st)

\* Mutant: a value taken from the next token is visited again by the loop.
AfterValue_RevisitsValue(src, argv, longNameMap, shortNameMap, sp, value, ap) ==
  IF ~ap.ok
  THEN Abort("main", "INVALID_VALUE",
             InvalidValueError(sp.isLong, sp.name, value), ap.st)
  ELSE MainPass(IF sp.hasValue THEN src + 1 ELSE src, argv, longNameMap,
                shortNameMap, ap.st)

\* After argument->parse(value), the value having come from token src.
AfterValue(src, argv, longNameMap, shortNameMap, sp, value, ap) ==
  IF ~ap.ok
  THEN Abort("main", "INVALID_VALUE",
             InvalidValueError(sp.isLong, sp.name, value), ap.st)
  ELSE MainPass(src + 1, argv, longNameMap, shortNameMap, ap.st)

\* "Get the value if not already provided", then parse it.
TakeValue(i, argv, longNameMap, shortNameMap, st, sp, idx, src, value) ==
  AfterValue(src, argv, longNameMap, shortNameMap, sp, value,
             ApplyOption(st, i, idx, value, src))

\* The token i names the argument idx (0: none).
Resolved(i, argv, longNameMap, shortNameMap, st, sp, idx) ==
  IF idx = 0
  THEN Abort("main", "UNKNOWN_OPTION", UnknownOptionError(sp.isLong, sp.name), st)
  ELSE IF IsBoolArgument(st.arguments[idx])
  THEN AfterFlag(i, argv, longNameMap, shortNameMap, sp,
                 ApplyOption(st, i, idx, TrueLiteral, i))
  ELSE IF ~sp.hasValue /\ NoNextToken(i, argv)
  THEN Abort("main", "MISSING_VALUE", MissingValueError(sp.isLong, sp.name), st)
  ELSE TakeValue(i, argv, longNameMap, shortNameMap, st, sp, idx,
                 IF sp.hasValue THEN i ELSE i + 1,
                 IF sp.hasValue THEN sp.value ELSE argv[i + 1])

\* The token i is an option token, split into sp.
Dispatch(i, argv, longNameMap, shortNameMap, st, sp) ==
  IF sp.grouped
  THEN AfterGrouped(i, argv, longNameMap, shortNameMap,
                    ApplyGrouped(argv[i], 2, i, shortNameMap, st))
  ELSE Resolved(i, argv, longNameMap, shortNameMap, st, sp,
                FindArgument(sp.isLong, sp.name, longNameMap, shortNameMap))

\* The split of an option token by the long or the short branch.
SplitToken(arg, arguments, shortNameMap) ==
  [isLong |-> IsLong(arg)]
    @@ (IF IsLong(arg) THEN SplitLong(arg)
        ELSE SplitShort(arg, arguments, shortNameMap))

\* The loop variable takes the value i.
Visit(st, i) == [st EXCEPT !.visited = @ \cup {i}]

\* Mutant: the first positional token ends the options; every token from
\* it on is buffered as a positional value.
MainPass_PositionalEndsOptions(i, argv, longNameMap, shortNameMap, st) ==
  IF i > Len(argv)
  THEN Abort("main", "SUCCESS", <<>>, st)
  ELSE IF argv[i] = <<>> \/ argv[i][1] # "-"
  THEN Abort("main", "SUCCESS", <<>>,
             [st EXCEPT !.visited = @ \cup (i..Len(argv)),
                        !.positionalTokens =
                          @ \o [n \in 1..(Len(argv) - i + 1) |-> i + n - 1]])
  ELSE Dispatch(i, argv, longNameMap, shortNameMap, Visit(st, i),
                SplitToken(argv[i], st.arguments, shortNameMap))

MainPass(i, argv, longNameMap, shortNameMap, st) ==
  IF i > Len(argv)
  THEN Abort("main", "SUCCESS", <<>>, st)
  ELSE IF argv[i] = <<>> \/ argv[i][1] # "-"
  THEN MainPass(i + 1, argv, longNameMap, shortNameMap,
                [st EXCEPT !.visited = @ \cup {i},
                           !.positionalTokens = Append(@, i)])
  ELSE Dispatch(i, argv, longNameMap, shortNameMap, Visit(st, i),
                SplitToken(argv[i], st.arguments, shortNameMap))

MissingPositionalError(name) ==
  <<"Missing required positional argument: ">> \o name

InvalidPositionalError(name, value) ==
  <<"Invalid value for positional argument: ">> \o name \o <<" = ">> \o value

TooManyPositionalError == <<"Too many positional arguments">>

MissingRequiredError(name) == <<"Missing required option: --">> \o name

\* The loop over positionalArguments_ from declaration k on; positionalIndex
\* counts the buffered values already bound (0-based, as in the source).
RECURSIVE BindPositionals(_, _, _, _)

\* After posArg->parse(value) has returned r for declaration k.
BoundPositional(k, positionalIndex, argv, st, src, r) ==
  IF ~r.ok
  THEN [st |-> [st EXCEPT
                  !.positionalArguments = [@ EXCEPT ![k] = r.arg],
                  !.log = Append(@, LogEntry(src, <<"pos", k>>, argv[src],
                                             src, FALSE))],
        positionalIndex |-> positionalIndex, ok |-> FALSE,
        result |-> "INVALID_VALUE",
        lastError |-> InvalidPositionalError(st.positionalArguments[k].name,
                                             argv[src])]
  ELSE BindPositionals(k + 1, positionalIndex + 1, argv,
                       [st EXCEPT
                          !.positionalArguments = [@ EXCEPT ![k] = r.arg],
                          !.log = Append(@, LogEntry(src, <<"pos", k>>,
                                                     argv[src], src, TRUE))])

\* Mutant: the buffered values are bound from the last one backwards.
BindValue_Backwards(k, positionalIndex, argv, st, src) ==
  BoundPositional(
    k, positionalIndex, argv, st,
    st.positionalTokens[Len(st.positionalTokens) - positionalIndex],
    ArgParse(st.positionalArguments[k],
             argv[st.positionalTokens[Len(st.positionalTokens)
                                        - positionalIndex]]))

\* posArg->parse(positionalValues[positionalIndex]), the value being the
\* token src.
BindValue(k, positionalIndex, argv, st, src) ==
  BoundPositional(k, positionalIndex, argv, st, src,
                  ArgParse(st.positionalArguments[k], argv[src]))

\* Mutant: a declaration with no value left aborts the call, required or not.
BindPositionals_RequireAll(k, positionalIndex, argv, st) ==
  IF k > Len(st.positionalArguments)
  THEN [st |-> st, positionalIndex |-> positionalIndex, ok |-> TRUE,
        result |-> "SUCCESS", lastError |-> <<>>]
  ELSE IF positionalIndex >= Len(st.positionalTokens)
  THEN [st |-> st, positionalIndex |-> positionalIndex, ok |-> FALSE,
        result |-> "MISSING_VALUE",
        lastError |-> MissingPositionalError(st.positionalArguments[k].name)]
  ELSE BindValue(k, positionalIndex, argv, st,
                 st.positionalTokens[positionalIndex + 1])

BindPositionals(k, positionalIndex, argv, st) ==
  IF k > Len(st.positionalArguments)
  THEN [st |-> st, positionalIndex |-> positionalIndex, ok |-> TRUE,
        result |-> "SUCCESS", lastError |-> <<>>]
  ELSE IF positionalIndex >= Len(st.positionalTokens)
  THEN IF st.positionalArguments[k].isRequired
       THEN [st |-> st, positionalIndex |-> positionalIndex, ok |-> FALSE,
             result |-> "MISSING_VALUE",
             lastError |->
               MissingPositionalError(st.positionalArguments[k].name)]
       ELSE BindPositionals(k + 1, positionalIndex, argv, st)
  ELSE BindValue(k, positionalIndex, argv, st,
                 st.positionalTokens[positionalIndex + 1])

\* Mutant: the required-option loop reports the last missing option.
FirstMissingRequired_Last(arguments) ==
  IF \E k \in 1..Len(arguments) :
       arguments[k].isRequired /\ ~arguments[k].isSet
  THEN CHOOSE k \in 1..Len(arguments) :
         /\ arguments[k].isRequired /\ ~arguments[k].isSet
         /\ \A j \in (k + 1)..Len(arguments) :
              ~(arguments[j].isRequired /\ ~arguments[j].isSet)
  ELSE 0

\* The required-option loop: index of the first argument of arguments_ with
\* isRequired() && !isSet(), 0 when there is none.
FirstMissingRequired(arguments) ==
  IF \E k \in 1..Len(arguments) :
       arguments[k].isRequired /\ ~arguments[k].isSet
  THEN CHOOSE k \in 1..Len(arguments) :
         /\ arguments[k].isRequired /\ ~arguments[k].isSet
         /\ \A j \in 1..(k - 1) :
              ~(arguments[j].isRequired /\ ~arguments[j].isSet)
  ELSE 0

\* "Check for missing required arguments": k is the first one missing.
CheckRequired(st, k) ==
  IF k # 0
  THEN Abort("required", "MISSING_VALUE",
             MissingRequiredError(st.arguments[k].name), st)
  ELSE Abort("done", "SUCCESS", <<>>, st)

\* Mutant: the required-option check comes before the excess check.
AfterPositionals_RequiredFirst(b) ==
  IF ~b.ok THEN Abort("positional", b.result, b.lastError, b.st)
  ELSE IF FirstMissingRequired(b.st.arguments) # 0
  THEN CheckRequired(b.st, FirstMissingRequired(b.st.arguments))
  ELSE IF b.positionalIndex < Len(b.st.positionalTokens)
  THEN Abort("excess", "INVALID_VALUE", TooManyPositionalError, b.st)
  ELSE Abort("done", "SUCCESS", <<>>, b.st)

\* After the positional loop has returned b.
AfterPositionals(b) ==
  IF ~b.ok THEN Abort("positional", b.result, b.lastError, b.st)
  ELSE IF b.positionalIndex < Len(b.st.positionalTokens)
  THEN Abort("excess", "INVALID_VALUE", TooManyPositionalError, b.st)
  ELSE CheckRequired(b.st, FirstMissingRequired(b.st.arguments))

\* Mutant: the buffered positional values are bound even when the main loop
\* has failed.
AfterMainPass_BindAnyway(argv, m) ==
  IF m.result # "SUCCESS"
  THEN [m EXCEPT !.positionalArguments =
                   BindPositionals(1, 0, argv, m).st.positionalArguments]
  ELSE AfterPositionals(BindPositionals(1, 0, argv, m))

\* After the main loop has returned m.
AfterMainPass(argv, m) ==
  IF m.result # "SUCCESS" THEN m
  ELSE AfterPositionals(BindPositionals(1, 0, argv, m))

\* The parser state a call starts from.
StartState(arguments, positionalArguments) ==
  [arguments |-> arguments, positionalArguments |-> positionalArguments,
   positionalTokens |-> <<>>, log |-> <<>>, visited |-> {}]

\* The call after the help scan, from the state st0.
ParseFrom(argv, longNameMap, shortNameMap, st0) ==
  IF HelpRequested(argv)
  THEN Abort("help", "HELP_REQUESTED", <<>>, st0)
  ELSE AfterMainPass(argv, MainPass(1, argv, longNameMap, shortNameMap, st0))

\* Parser::parse(argc, argv).  stage names the part of parse that returned:
\* "help", "main", "positional", "excess", "required" or "done".
ParseCall(argv, arguments, positionalArguments, longNameMap, shortNameMap) ==
  ParseFrom(argv, longNameMap, shortNameMap,
            StartState(arguments, positionalArguments))

\* ------------------------------------------------------------------------
\* The programs that embed the parser: their declarations and the tokens
\* their command lines are drawn from
\* ------------------------------------------------------------------------

\* The long names the programs declare.
Name ==
  [ verbose |-> <<"v", "e", "r", "b", "o", "s", "e">>,
    debug |-> <<"d", "e", "b", "u", "g">>,
    quiet |-> <<"q", "u", "i", "e", "t">>,
    input |-> <<"i", "n", "p", "u", "t">>,
    output |-> <<"o", "u", "t", "p", "u", "t">>,
    count |-> <<"c", "o", "u", "n", "t">>,
    unknown |-> <<"u", "n", "k", "n", "o", "w", "n">>,
    small |-> <<"s", "m", "a", "l", "l">>,
    even |-> <<"e", "v", "e", "n">>,
    positive |-> <<"p", "o", "s", "i", "t", "i", "v", "e">>,
    large |-> <<"l", "a", "r", "g", "e">>,
    rate |-> <<"r", "a", "t", "e">>,
    factor |-> <<"f", "a", "c", "t", "o", "r">>,
    name |-> <<"n", "a", "m", "e">>,
    level |-> <<"l", "e", "v", "e", "l">>,
    i16 |-> <<"i", "1", "6">>,
    i32 |-> <<"i", "3", "2">>,
    i64 |-> <<"i", "6", "4">>,
    u32 |-> <<"u", "3", "2">>,
    u64 |-> <<"u", "6", "4">>,
    precision |-> <<"p", "r", "e", "c", "i", "s", "i", "o", "n">>,
    pi |-> <<"p", "i">> ]

Long(name) == <<"-", "-">> \o name

LongEq(name, v) == Long(name) \o <<"=">> \o v

Short(c) == <<"-">> \o c

OptDecl(kind, name, shortName, required, defaultValue) ==
  [op |-> "addArgument", kind |-> kind, name |-> name,
   shortName |-> shortName, required |-> required,
   defaultValue |-> defaultValue]

PosDecl(kind, name, required, defaultValue) ==
  [op |-> "addPositionalArgument", kind |-> kind, name |-> name,
   shortName |-> <<>>, required |-> required, defaultValue |-> defaultValue]

ValidatorDecl(on, validator) ==
  [op |-> "setValidator", on |-> on, validator |-> validator]

\* "basic": the declarations of test_basic_parsing, test_validator and
\* test_grouped_short_options, with one flag declared with default true
\* (as test_designated_initializers does).
BasicScript ==
  << OptDecl("bool", Name.verbose, <<"v">>, FALSE, FALSE),
     OptDecl("bool", Name.debug, <<"d">>, FALSE, TRUE),
     OptDecl("string", Name.input, <<"i">>, TRUE, <<>>),
     OptDecl("int32", Name.count, <<"c">>, FALSE, MkNum(FALSE, <<1, 0>>)),
     ValidatorDecl("opt", "positive"),
     PosDecl("string", Name.output, FALSE, <<"o">>) >>

\* "kinds": one option of every numeric kind and a text option, with the
\* validators of test_integer_types_validators, test_float_validator and
\* test_double_validator; two of the options are required.
KindsScript ==
  << OptDecl("int16", Name.small, <<"s">>, FALSE, MkNum(FALSE, <<7>>)),
     OptDecl("int64", Name.even, <<"e">>, FALSE, MkNum(TRUE, <<4>>)),
     ValidatorDecl("opt", "even"),
     OptDecl("uint32", Name.positive, <<"p">>, TRUE, MkNum(FALSE, <<1>>)),
     ValidatorDecl("opt", "positive"),
     OptDecl("uint64", Name.large, <<"l">>, FALSE, MkNum(FALSE, <<9>>)),
     ValidatorDecl("opt", "large"),
     OptDecl("float", Name.rate, <<"r">>, TRUE, MkDec(FALSE, <<2, 5>>, 1)),
     ValidatorDecl("opt", "percent"),
     OptDecl("double", Name.factor, <<"f">>, FALSE, MkDec(FALSE, <<1, 6, 1, 8>>, 1)),
     ValidatorDecl("opt", "positive"),
     OptDecl("string", Name.name, <<"n">>, FALSE, <<"d", "e", "f">>),
     ValidatorDecl("opt", "nonempty"),
     PosDecl("int32", Name.level, FALSE, MkNum(FALSE, <<3>>)),
     ValidatorDecl("pos", "positive") >>

\* "positional": the declarations of test_positional_arguments.
PositionalScript ==
  << PosDecl("string", Name.input, TRUE, <<>>),
     PosDecl("string", Name.output, FALSE, <<"d", ".", "o">>),
     OptDecl("int32", Name.count, <<"c">>, FALSE, MkNum(FALSE, <<1>>)) >>

\* "trailing": an optional positional declared before a required one, and a
\* flag declared required.
TrailingScript ==
  << OptDecl("bool", Name.verbose, <<"v">>, TRUE, FALSE),
     PosDecl("string", Name.output, FALSE, <<"d", ".", "o">>),
     PosDecl("string", Name.input, TRUE, <<>>) >>

\* std::to_string of an integer.
DecimalString(v) ==
  (IF v.neg THEN <<"-">> ELSE <<>>)
    \o (IF v.mag = <<>> THEN <<"0">>
        ELSE [n \in 1..Len(v.mag) |-> DigitChars[v.mag[n] + 1]])

\* The magnitude m + 1.
RECURSIVE MagSucc(_)
MagSucc(m) ==
  IF m = <<>> THEN <<1>>
  ELSE IF m[Len(m)] < 9
  THEN SubSeq(m, 1, Len(m) - 1) \o <<m[Len(m)] + 1>>
  ELSE MagSucc(SubSeq(m, 1, Len(m) - 1)) \o <<0>>

\* std::numeric_limits<T>::min() and max() of the integer kinds.
LimitMin(kind) ==
  IF kind \in {"uint32", "uint64"} THEN Zero ELSE MkNum(TRUE, SignedMin(kind))

LimitMax(kind) ==
  IF kind \in {"uint32", "uint64"}
  THEN MkNum(FALSE, UnsignedMax(kind))
  ELSE MkNum(FALSE, SignedMax(kind))

\* The decimal strings one above the maximum and one below the minimum.
AboveMax(kind) == DecimalString(MkNum(FALSE, MagSucc(LimitMax(kind).mag)))

BelowMin(kind) == DecimalString(MkNum(TRUE, MagSucc(LimitMin(kind).mag)))

\* "limits": one option of every integer kind, as in test_int64_max_min,
\* test_int64_overflow, test_int64_underflow and test_uint64_negative_values.
LimitsScript ==
  << OptDecl("int16", Name.i16, <<"a">>, FALSE, MkNum(FALSE, <<1>>)),
     OptDecl("int32", Name.i32, <<"b">>, FALSE, MkNum(FALSE, <<1>>)),
     OptDecl("int64", Name.i64, <<"c">>, FALSE, MkNum(FALSE, <<1>>)),
     OptDecl("uint32", Name.u32, <<"d">>, FALSE, MkNum(FALSE, <<1>>)),
     OptDecl("uint64", Name.u64, <<"e">>, FALSE, MkNum(FALSE, <<1>>)) >>

\* The name the "limits" program gives to the option of a kind.
LimitName(kind) ==
  CASE kind = "int16" -> Name.i16
    [] kind = "int32" -> Name.i32
    [] kind = "int64" -> Name.i64
    [] kind = "uint32" -> Name.u32
    [] kind = "uint64" -> Name.u64

\* Minus the largest 64-bit unsigned value: negated in the unsigned type it
\* is 1.
MinusUint64Max == DecimalString(MkNum(TRUE, UINT64_MAX))

\* "noshort": the declarations of test_double_parsing, whose second option
\* has the empty short name.
NoShortScript ==
  << OptDecl("double", Name.precision, <<"p">>, FALSE, MkDec(FALSE, <<1>>, 1)),
     OptDecl("double", Name.pi, <<>>, TRUE, DecZero) >>

\* "collide": a program that declares a long name twice (with different
\* kinds), a short name twice, and a short name of two characters that
\* begins with the short name of a flag.
CollideScript ==
  << OptDecl("string", Name.input, <<"i">>, FALSE, <<"a">>),
     OptDecl("int32", Name.input, <<"n">>, FALSE, MkNum(FALSE, <<1>>)),
     OptDecl("bool", Name.verbose, <<"v">>, FALSE, FALSE),
     OptDecl("bool", Name.debug, <<"v">>, FALSE, FALSE),
     OptDecl("string", Name.output, <<"v", "x">>, FALSE, <<>>) >>

\* "repeat": a program that calls parse several times on one Parser, as
\* test_float_validator does.
RepeatScript ==
  << OptDecl("bool", Name.verbose, <<"v">>, FALSE, FALSE),
     OptDecl("string", Name.input, <<"i">>, TRUE, <<>>),
     OptDecl("int32", Name.count, <<"c">>, FALSE, MkNum(FALSE, <<1, 0>>)),
     ValidatorDecl("opt", "positive"),
     PosDecl("string", Name.output, FALSE, <<"o">>) >>

Script(f) ==
  CASE f = "basic" -> BasicScript
    [] f = "kinds" -> KindsScript
    [] f = "positional" -> PositionalScript
    [] f = "trailing" -> TrailingScript
    [] f = "limits" -> LimitsScript
    [] f = "noshort" -> NoShortScript
    [] f = "collide" -> CollideScript
    [] f = "repeat" -> RepeatScript

\* The tokens the command lines of program f are drawn from.
Tokens(f) ==
  CASE f = "basic" ->
       { Short(<<"v">>), Short(<<"v", "d">>), Short(<<"v", "c">>),
         Short(<<"c", "5">>), Short(<<"c">>), <<"-", "5">>,
         Long(Name.input), LongEq(Name.input, <<"x">>), <<"x">>,
         LongEq(Name.input, <<"a", "=", "b">>), LongEq(Name.input, HelpShort),
         LongEq(Name.unknown, <<"5">>), Long(Name.unknown), HelpShort, HelpLong }
    [] f = "kinds" ->
       { Short(<<"s", "5">>), Short(<<"s", "x">>),
         Short(<<"e", "6">>), Short(<<"e", "3">>),
         Short(<<"p", "2">>), Short(<<"p", "0">>),
         Short(<<"l", "5">>),
         Short(<<"r", "8", ".", "5">>), Short(<<"r", "1", "5", "0">>),
         Short(<<"f", "0", ".", "5">>), Short(<<"f", "-", "1">>),
         Short(<<"n", "a">>), LongEq(Name.name, <<>>),
         <<"8">>, <<"0">> }
    [] f = "positional" ->
       { <<"a">>, <<"b">>, <<>>, LongEq(Name.count, <<"5">>), Long(Name.count),
         <<"5">>, Short(<<"c">>), Short(<<"x">>),
         LongEq(Name.count, <<>>), LongEq(Name.count, <<" ", "7">>),
         LongEq(Name.count, <<"7", "x">>) }
    [] f = "trailing" ->
       { <<"a">>, <<"b">>, <<>>, Short(<<"v">>) }
    [] f = "limits" ->
       UNION {{LongEq(LimitName(kind), DecimalString(LimitMin(kind))),
               LongEq(LimitName(kind), DecimalString(LimitMax(kind))),
               LongEq(LimitName(kind), AboveMax(kind)),
               LongEq(LimitName(kind), BelowMin(kind))} : kind \in IntKinds}
         \cup UNION {{LongEq(LimitName(kind), <<"-", "0">>),
                      LongEq(LimitName(kind), MinusUint64Max)} :
                       kind \in {"uint32", "uint64"}}
    [] f = "noshort" ->
       { <<"-">>, Long(Name.pi), LongEq(Name.pi, <<"3", ".", "1", "4">>), <<"2">>,
         Short(<<"p", "2">>), Long(Name.precision), Short(<<"x">>) }
    [] f = "collide" ->
       { LongEq(Name.input, <<"5">>), LongEq(Name.input, <<"x">>),
         Short(<<"i", "7">>), Short(<<"n", "7">>), Short(<<"v">>),
         Long(Name.verbose), LongEq(Name.verbose, <<"0">>),
         Short(<<"v", "x">>), Short(<<"v", "q">>), <<"y">> }
    [] f = "repeat" ->
       { Short(<<"v">>), LongEq(Name.input, <<"x">>), <<"y">>,
         Long(Name.unknown), Short(<<"c", "-", "5">>), HelpShort }

Fixtures ==
  {"basic", "kinds", "positional", "trailing", "limits", "noshort", "collide"}

MultiFixtures == {"repeat"}

\* ------------------------------------------------------------------------
\* Bounds
\* ------------------------------------------------------------------------

\* Longest token list of a first parse call.
MaxArgs == 3

\* Longest token list of the "limits" program.
MaxLimitArgs == 2

\* Longest token list of a repeated parse call.
MaxMultiArgs == 2

\* Number of parse calls on one Parser.
MaxCalls == 2

\* Longest token list of the first parse call of program f.
ArgsBound(f) == IF f = "limits" THEN MaxLimitArgs ELSE MaxArgs

\* All token lists of length <= n over the token set ts.
ArgvLists(ts, n) == UNION {[1..k -> ts] : k \in 0..n}

\* ------------------------------------------------------------------------
\* State
\* ------------------------------------------------------------------------

VARIABLES
  fixture,              \* which embedding program this is
  pc,                   \* next declaration of Script(fixture) to execute
  declared,             \* the addArgument calls made, in order
  declaredPositional,   \* the addPositionalArgument calls made, in order
  arguments,            \* Parser::arguments_
  positionalArguments,  \* Parser::positionalArguments_
  longNameMap,          \* Parser::longNameMap_ (name -> index in arguments_)
  shortNameMap,         \* Parser::shortNameMap_
  lastError,            \* Parser::lastError_
  calls,                \* number of parse calls made
  argv,                 \* tokens of the latest parse call
  result,               \* value returned by the latest parse call
  stage,                \* part of parse that returned
  log,                  \* Argument::parse calls the latest parse made
  visited               \* token indices the main loop of the latest call took

vars == <<fixture, pc, declared, declaredPositional, arguments,
          positionalArguments, longNameMap, shortNameMap, lastError, calls,
          argv, result, stage, log, visited>>

registryVars == <<arguments, positionalArguments, longNameMap, shortNameMap>>

callVars == <<lastError, calls, argv, result, stage, log, visited>>

EmptyMap == [k \in {} |-> 0]

\* Parser::Parser: empty collections, empty lastError_.
InitParser ==
  /\ pc = 1
  /\ declared = <<>>
  /\ declaredPositional = <<>>
  /\ arguments = <<>>
  /\ positionalArguments = <<>>
  /\ longNameMap = EmptyMap
  /\ shortNameMap = EmptyMap
  /\ lastError = <<>>
  /\ calls = 0
  /\ argv = <<>>
  /\ result = "NONE"
  /\ stage = "none"
  /\ log = <<>>
  /\ visited = {}

Init == fixture \in Fixtures /\ InitParser

InitMulti == fixture \in MultiFixtures /\ InitParser

\* Mutant: a key that is already in the map keeps its first value.
MapPut_KeepFirst(map, key, value) ==
  [k \in DOMAIN map \cup {key} |-> IF k \in DOMAIN map THEN map[k] ELSE value]

\* map[key] = value
MapPut(map, key, value) ==
  [k \in DOMAIN map \cup {key} |-> IF k = key THEN value ELSE map[k]]

Declaring == pc <= Len(Script(fixture))

\* Parser::addArgument<T>(name, shortName, description, required, defaultValue)
AddArgument ==
  /\ Declaring
  /\ Script(fixture)[pc].op = "addArgument"
  /\ LET d == Script(fixture)[pc]
         ptr == Len(arguments) + 1
     IN /\ arguments' = Append(arguments,
                               MakeArgument(d.kind, d.name, d.shortName,
                                            d.required, d.defaultValue))
        /\ longNameMap' = MapPut(longNameMap, d.name, ptr)
        /\ shortNameMap' = MapPut(shortNameMap, d.shortName, ptr)
        /\ declared' = Append(declared, d)
  /\ pc' = pc + 1
  /\ UNCHANGED <<fixture, declaredPositional, positionalArguments>>
  /\ UNCHANGED callVars

\* Parser::addPositionalArgument<T>(name, description, required, defaultValue)
AddPositionalArgument ==
  /\ Declaring
  /\ Script(fixture)[pc].op = "addPositionalArgument"
  /\ LET d == Script(fixture)[pc]
     IN /\ positionalArguments' =
             Append(positionalArguments,
                    MakeArgument(d.kind, d.name, <<>>, d.required, d.defaultValue))
        /\ declaredPositional' = Append(declaredPositional, d)
  /\ pc' = pc + 1
  /\ UNCHANGED <<fixture, declared, arguments, longNameMap, shortNameMap>>
  /\ UNCHANGED callVars

\* Argument<T>::setValidator, called on the handle the latest declaration
\* of that list returned.
SetValidator ==
  /\ Declaring
  /\ Script(fixture)[pc].op = "setValidator"
  /\ LET d == Script(fixture)[pc]
     IN IF d.on = "opt"
        THEN /\ arguments' = [arguments EXCEPT
                                ![Len(arguments)].validator = d.validator]
             /\ UNCHANGED positionalArguments
        ELSE /\ positionalArguments' =
                  [positionalArguments EXCEPT
                     ![Len(positionalArguments)].validator = d.validator]
             /\ UNCHANGED arguments
  /\ pc' = pc + 1
  /\ UNCHANGED <<fixture, declared, declaredPositional, longNameMap, shortNameMap>>
  /\ UNCHANGED callVars

\* Mutant: parse does not clear lastError_ on entry.
Returned_KeepsMessage(tokens, r) ==
  /\ arguments' = r.arguments
  /\ positionalArguments' = r.positionalArguments
  /\ lastError' = IF r.lastError = <<>> THEN lastError ELSE r.lastError
  /\ result' = r.result
  /\ stage' = r.stage
  /\ log' = r.log
  /\ visited' = r.visited
  /\ argv' = tokens
  /\ calls' = calls + 1
  /\ UNCHANGED <<fixture, pc, declared, declaredPositional, longNameMap,
                 shortNameMap>>

\* One call parser.parse(argc, argv) with the given tokens.
Returned(tokens, r) ==
  /\ arguments' = r.arguments
  /\ positionalArguments' = r.positionalArguments
  /\ lastError' = r.lastError
  /\ result' = r.result
  /\ stage' = r.stage
  /\ log' = r.log
  /\ visited' = r.visited
  /\ argv' = tokens
  /\ calls' = calls + 1
  /\ UNCHANGED <<fixture, pc, declared, declaredPositional, longNameMap,
                 shortNameMap>>

\* parser.parse(argc, argv) with argv[1..] = tokens.
ParseWith(tokens) ==
  /\ ~Declaring
  /\ Returned(tokens, ParseCall(tokens, arguments, positionalArguments,
                                longNameMap, shortNameMap))

\* The first parse call of the program.
Parse ==
  /\ calls = 0
  /\ \E tokens \in ArgvLists(Tokens(fixture), ArgsBound(fixture)) :
       ParseWith(tokens)

\* A further parse call on the same Parser.
ParseAgain ==
  /\ calls >= 1
  /\ calls < MaxCalls
  /\ \E tokens \in ArgvLists(Tokens(fixture), MaxMultiArgs) : ParseWith(tokens)

Next == AddArgument \/ AddPositionalArgument \/ SetValidator \/ Parse

NextMulti == Next \/ ParseAgain

Spec == Init /\ [][Next]_vars

SpecMulti == InitMulti /\ [][NextMulti]_vars

\* ------------------------------------------------------------------------
\* Vocabulary of the properties
\* ------------------------------------------------------------------------

\* A step that is one parse call.
ParseStep == calls' = calls + 1

StartsWith(t, pre) == Len(t) >= Len(pre) /\ SubSeq(t, 1, Len(pre)) = pre

\* A token that begins with exactly one dash.
SingleDash(t) == t # <<>> /\ t[1] = "-" /\ ~(Len(t) > 1 /\ t[2] = "-")

\* A token that begins with two dashes.
DoubleDash(t) == Len(t) > 1 /\ t[1] = "-" /\ t[2] = "-"

\* A token that the dispatcher would buffer as a positional value.
PositionalLike(t) == t = <<>> \/ t[1] # "-"

\* Token t spells the option declared by d: its long name (with or without
\* an inline value), or a single-dash token in which its short name occurs.
\* This over-approximates, so "never mentions" is on the safe side.
TokenMentions(t, d) ==
  \/ t = Long(d.name)
  \/ StartsWith(t, Long(d.name) \o <<"=">>)
  \/ /\ SingleDash(t)
     /\ \/ SubStr(t, 1) = d.shortName
        \/ Len(d.shortName) = 1 /\ \E j \in 2..Len(t) : t[j] = d.shortName[1]

Mentions(tokens, d) == \E i \in 1..Len(tokens) : TokenMentions(tokens[i], d)

MentionsPositional(tokens) == \E i \in 1..Len(tokens) : PositionalLike(tokens[i])

Options == 1..Len(declared)

Positionals == 1..Len(declaredPositional)

\* Declaration k of addArgument is a non-flag option whose long and short
\* names no other declaration uses.
UniqueNames(k) ==
  \A j \in Options \ {k} :
    /\ declared[j].name # declared[k].name
    /\ declared[j].shortName # declared[k].shortName

NonFlag(k) == declared[k].kind # "bool"

Flag(k) == declared[k].kind = "bool"

\* value and isSet of a and b agree.
SameState(a, b) == a.value = b.value /\ a.isSet = b.isSet

\* The entries of a log made for token i.
EntriesOf(lg, i) == {n \in 1..Len(lg) : lg[n].tok = i}

\* The entries of a log that target option k.
EntriesOn(lg, k) == {n \in 1..Len(lg) : lg[n].target = <<"opt", k>>}

\* Declaration k is the one its long name resolves to (the latest
\* declaration of a name is the one the registry keeps).
LongOwner(k) == \A j \in Options : j > k => declared[j].name # declared[k].name

\* Declaration k is the one its short name resolves to.
ShortOwner(k) ==
  \A j \in Options : j > k => declared[j].shortName # declared[k].shortName

\* The outcome r of a parse call is the outcome of this step: result code,
\* message, and value and isSet of every argument.
SameOutcome(r) ==
  /\ r.result = result'
  /\ r.lastError = lastError'
  /\ \A k \in 1..Len(arguments) : SameState(r.arguments[k], arguments'[k])
  /\ \A k \in 1..Len(positionalArguments) :
       SameState(r.positionalArguments[k], positionalArguments'[k])

\* Every string a dispatcher could hand to Argument::parse from the tokens
\* of this program: a token, or the tail of one.
RawStrings ==
  UNION {{SubStr(t, n) : n \in 0..Len(t)} : t \in Tokens(fixture)}

\* ------------------------------------------------------------------------
\* C1
\* ------------------------------------------------------------------------

\* C1: after a parse call whose tokens never mention an argument, that
\* argument reports isSet() == false and getValue() == the default it was
\* declared with, for every kind, flags declared through
\* addArgument<bool>(name, short, desc, required, defaultValue) included.
C1_UnmentionedKeepsDeclaredDefault ==
  calls = 1 =>
    /\ \A k \in Options :
         ~Mentions(argv, declared[k]) =>
           /\ ~arguments[k].isSet
           /\ arguments[k].value = declared[k].defaultValue
    /\ \A k \in Positionals :
         ~MentionsPositional(argv) =>
           /\ ~positionalArguments[k].isSet
           /\ positionalArguments[k].value = declaredPositional[k].defaultValue

\* ------------------------------------------------------------------------
\* C2
\* ------------------------------------------------------------------------

\* C2: whenever Argument::parse(raw) returns false, for whatever reason,
\* the argument's value and isSet are what they were before the call.
C2_FailedParseLeavesArgument ==
  /\ \A k \in 1..Len(arguments) : \A raw \in RawStrings :
       LET r == ArgParse(arguments[k], raw)
       IN ~r.ok => SameState(r.arg, arguments[k])
  /\ \A k \in 1..Len(positionalArguments) : \A raw \in RawStrings :
       LET r == ArgParse(positionalArguments[k], raw)
       IN ~r.ok => SameState(r.arg, positionalArguments[k])

\* ------------------------------------------------------------------------
\* C3
\* ------------------------------------------------------------------------

\* Some token is `--help` or `-h`.
HasHelpToken(tokens) ==
  \E i \in 1..Len(tokens) : tokens[i] \in {HelpLong, HelpShort}

C4_EachCallStartsAfresh ==
  calls >= 2 =>
    /\ \A k \in Options :
         ~Mentions(argv, declared[k]) =>
           /\ ~arguments[k].isSet
           /\ arguments[k].value = declared[k].defaultValue
    /\ \A k \in Positionals :
         ~MentionsPositional(argv) =>
           /\ ~positionalArguments[k].isSet
           /\ positionalArguments[k].value = declaredPositional[k].defaultValue
    /\ (/\ stage \in {"required", "done"}
        /\ \E k \in Options :
             /\ NonFlag(k)
             /\ declared[k].required
             /\ ~Mentions(argv, declared[k]))
         => result = "MISSING_VALUE"

\* ------------------------------------------------------------------------
\* C5
\* ------------------------------------------------------------------------

\* Token t is `--name=v` for the non-flag option declared by k.
InlineLong(t, k) ==
  /\ NonFlag(k)
  /\ LongOwner(k)
  /\ StartsWith(t, Long(declared[k].name) \o <<"=">>)

\* The v of `--name=v`.
InlineValue(t, k) == SubStr(t, Len(declared[k].name) + 3)

\* The token list with token i, `--name=v`, written as the two tokens
\* `--name`, `v`.
SplitForm(tokens, i, k) ==
  SubSeq(tokens, 1, i - 1)
    \o <<Long(declared[k].name), InlineValue(tokens[i], k)>>
    \o SubSeq(tokens, i + 1, Len(tokens))

\* The parse call of this step, made on other tokens.
ParseInstead(tokens) ==
  ParseCall(tokens, arguments, positionalArguments, longNameMap, shortNameMap)

\* C5 as stated: for every declared non-flag option `name` and every value
\* v, a token list with `--name=v` and the same list with `--name`, `v` in
\* its place give the same result code, the same message and the same value
\* and isSet of every argument.
C5_InlineEqualsSplit ==
  [][ParseStep =>
       \A i \in 1..Len(argv') : \A k \in Options :
         InlineLong(argv'[i], k) =>
           SameOutcome(ParseInstead(SplitForm(argv', i, k)))]_vars

\* C5, amended: the two forms give the same outcome when v is not a help
\* token and the `--name=v` token is not itself consumed as the value of the
\* option before it; v is everything after the first `=`.
C5_InlineEqualsSplitUnlessHelpOrConsumed ==
  [][ParseStep =>
       \A i \in 1..Len(argv') : \A k \in Options :
         (/\ InlineLong(argv'[i], k)
          /\ InlineValue(argv'[i], k) \notin {HelpLong, HelpShort}
          /\ \A n \in 1..Len(log') : log'[n].src = i => log'[n].tok = i)
           => SameOutcome(ParseInstead(SplitForm(argv', i, k)))]_vars

\* A call succeeded on `--input=a=b` after another token, and input holds
\* everything after the first `=`.
C5_Witness ==
  /\ calls = 1
  /\ result = "SUCCESS"
  /\ \E i \in visited : \E k \in Options :
       /\ i >= 2
       /\ declared[k].name = Name.input
       /\ argv[i] = LongEq(Name.input, <<"a", "=", "b">>)
       /\ arguments[k].isSet
       /\ arguments[k].value = <<"a", "=", "b">>

\* ------------------------------------------------------------------------
\* C6
\* ------------------------------------------------------------------------

\* Character c is the short name of a declared flag.
FlagShort(c) ==
  \E k \in Options : Flag(k) /\ ShortOwner(k) /\ declared[k].shortName = <<c>>

\* A single-dash token with two or more characters after the dash, each the
\* short name of a declared flag.
GroupedFlags(t) ==
  SingleDash(t) /\ Len(t) >= 3 /\ \A j \in 2..Len(t) : FlagShort(t[j])

\* C6: a token of grouped flags that the main pass comes to sets each of its
\* flags to value true and isSet true, takes nothing from the following
\* token, and the pass goes on with the next token (or ends, after the last
\* token).
C6_GroupedFlagsAllSet ==
  \A i \in visited :
    GroupedFlags(argv[i]) =>
      /\ \A k \in Options :
           (ShortOwner(k) /\ \E j \in 2..Len(argv[i]) :
                               declared[k].shortName = <<argv[i][j]>>)
             => arguments[k].value = TRUE /\ arguments[k].isSet
      /\ \A n \in EntriesOf(log, i) : log[n].src = i
      /\ IF i < Len(argv) THEN i + 1 \in visited ELSE stage # "main"

\* `-vd` followed by another token: both flags are set and the pass went on.
C6_Witness ==
  /\ calls = 1
  /\ result = "SUCCESS"
  /\ Len(argv) >= 2
  /\ argv[1] = Short(<<"v", "d">>)
  /\ 2 \in visited
  /\ \E k \in Options :
       declared[k].name = Name.debug /\ arguments[k].isSet /\ arguments[k].value = TRUE
  /\ \E k \in Options :
       declared[k].name = Name.verbose /\ arguments[k].isSet /\ arguments[k].value = TRUE

\* ------------------------------------------------------------------------
\* C7
\* ------------------------------------------------------------------------

\* Token t is `-cREST`: c the short name of the non-flag option declared by
\* k, REST not empty.
InlineShort(t, k) ==
  /\ SingleDash(t)
  /\ Len(t) >= 3
  /\ NonFlag(k)
  /\ ShortOwner(k)
  /\ declared[k].shortName = <<t[2]>>

\* C7: a token `-cREST` that the main pass comes to makes exactly one parse
\* call, on option c, with REST, the whole remainder of the token; nothing is
\* taken from the following token, which the pass classifies on its own when
\* the value is accepted; the option ends as that parse call leaves it when
\* nothing else of the call touches it.
C7_ShortInlineValue ==
  [][ParseStep =>
       \A i \in visited' : \A k \in Options :
         InlineShort(argv'[i], k) =>
           \E n \in 1..Len(log') :
             /\ EntriesOf(log', i) = {n}
             /\ log'[n].target = <<"opt", k>>
             /\ log'[n].raw = SubStr(argv'[i], 2)
             /\ log'[n].src = i
             /\ (log'[n].ok /\ i < Len(argv')) => i + 1 \in visited'
             /\ EntriesOn(log', k) = {n} =>
                  arguments'[k] = ArgParse(arguments[k], SubStr(argv'[i], 2)).arg]_vars

\* `-c5` followed by a positional token: count is 5 and the following token
\* was bound as the positional value.
C7_Witness ==
  /\ calls = 1
  /\ \E i \in visited : \E k \in Options :
       /\ i < Len(argv)
       /\ argv[i] = Short(<<"c", "5">>)
       /\ declared[k].name = Name.count
       /\ arguments[k].isSet
       /\ arguments[k].value = MkNum(FALSE, <<5>>)
       /\ PositionalLike(argv[i + 1])
       /\ Len(positionalArguments) >= 1
       /\ positionalArguments[1].isSet
       /\ positionalArguments[1].value = argv[i + 1]

\* ------------------------------------------------------------------------
\* C8
\* ------------------------------------------------------------------------

\* The part of a double-dash token between the dashes and the first `=`.
WrittenLongName(t) ==
  IF \E j \in 1..Len(t) : t[j] = "="
  THEN SubSeq(t, 3, (CHOOSE j \in 1..Len(t) :
                       t[j] = "=" /\ \A h \in 1..(j - 1) : t[h] # "=") - 1)
  ELSE SubStr(t, 2)

\* Token t names an option that no declaration has: a double-dash token
\* whose name is no declared long name, or a single-dash token that is
\* neither `-cREST` for a non-flag c, nor grouped flags, and whose remainder
\* is no declared short name.
NamesUnknown(t) ==
  \/ /\ DoubleDash(t)
     /\ \A k \in Options : declared[k].name # WrittenLongName(t)
  \/ /\ SingleDash(t)
     /\ \A k \in Options : declared[k].shortName # SubStr(t, 1)
     /\ ~\E k \in Options : InlineShort(t, k)
     /\ ~GroupedFlags(t)

\* C8 as stated: a token naming an undeclared option makes parse return
\* UNKNOWN_OPTION with the message "Unknown option: " + the token exactly as
\* written, a long token with an inline `=value` included.
C8_UnknownOptionNamesToken ==
  \A i \in visited :
    NamesUnknown(argv[i]) =>
      /\ result = "UNKNOWN_OPTION"
      /\ lastError = <<"Unknown option: ">> \o argv[i]

\* C8, amended: the message is "Unknown option: " + the dashes and the option
\* name as written; of a long token with an inline `=value`, the part before
\* the first `=`.
C8_UnknownOptionNamesOption ==
  \A i \in visited :
    NamesUnknown(argv[i]) =>
      /\ result = "UNKNOWN_OPTION"
      /\ lastError =
           <<"Unknown option: ">>
             \o (IF DoubleDash(argv[i])
                 THEN Long(WrittenLongName(argv[i]))
                 ELSE argv[i])

\* `--unknown=5` after another token: the message names `--unknown`.
C8_Witness ==
  /\ calls = 1
  /\ result = "UNKNOWN_OPTION"
  /\ \E i \in visited : i >= 2 /\ argv[i] = LongEq(Name.unknown, <<"5">>)
  /\ lastError = <<"Unknown option: ">> \o Long(Name.unknown)

\* ------------------------------------------------------------------------
\* C9
\* ------------------------------------------------------------------------

\* The options declared required (flags apart) that are not set.
MissingRequired ==
  {k \in Options : NonFlag(k) /\ declared[k].required /\ ~arguments[k].isSet}

\* C9: when the main pass, the positional binding and the excess check of a
\* call have passed, the call returns MISSING_VALUE with "Missing required
\* option: --" + the long name of the first required option (in declaration
\* order) that is not set, and SUCCESS when there is none.
C9_RequiredCheck ==
  stage \in {"required", "done"} =>
    IF MissingRequired # {}
    THEN /\ result = "MISSING_VALUE"
         /\ \E k \in MissingRequired :
              /\ \A j \in MissingRequired : k <= j
              /\ lastError =
                   <<"Missing required option: --">> \o declared[k].name
    ELSE result = "SUCCESS"

\* A call with tokens went through to the required check with two required
\* options unset.
C9_Witness ==
  /\ calls = 1
  /\ argv # <<>>
  /\ stage = "required"
  /\ result = "MISSING_VALUE"
  /\ \E j, k \in MissingRequired : j # k

\* ------------------------------------------------------------------------
\* C10
\* ------------------------------------------------------------------------

\* Token t is `--name`, or `-c` for a one-character short name, of the
\* non-flag option declared by k, with no inline value.
BareOption(t, k) ==
  /\ NonFlag(k)
  /\ \/ LongOwner(k) /\ t = Long(declared[k].name)
     \/ /\ ShortOwner(k)
        /\ Len(declared[k].shortName) = 1
        /\ t = Short(declared[k].shortName)

\* C10: when the main pass comes to the last token and it is a bare non-flag
\* option, the call returns MISSING_VALUE with "Missing value for option: "
\* + the token as written; the token makes no parse call, and the option is
\* as it was before the call when no earlier token of the call touched it.
C10_MissingValueAtEnd ==
  [][ParseStep =>
       \A k \in Options :
         (/\ argv' # <<>>
          /\ Len(argv') \in visited'
          /\ BareOption(argv'[Len(argv')], k))
           => /\ result' = "MISSING_VALUE"
              /\ lastError' =
                   <<"Missing value for option: ">> \o argv'[Len(argv')]
              /\ EntriesOf(log', Len(argv')) = {}
              /\ EntriesOn(log', k) = {} => arguments'[k] = arguments[k]]_vars

\* `--input` as the last of several tokens.
C10_Witness ==
  /\ calls = 1
  /\ result = "MISSING_VALUE"
  /\ Len(argv) >= 2
  /\ Len(argv) \in visited
  /\ argv[Len(argv)] = Long(Name.input)
  /\ lastError = <<"Missing value for option: ">> \o Long(Name.input)

\* ------------------------------------------------------------------------
\* C11
\* ------------------------------------------------------------------------

\* Token i of tokens supplies a value to the non-flag option declared by k:
\* inline (`--name=v`, `-cREST`) or from the token after it.
SuppliesValue(tokens, i, k) ==
  \/ InlineLong(tokens[i], k)
  \/ InlineShort(tokens[i], k)
  \/ BareOption(tokens[i], k) /\ i < Len(tokens)

\* The value string supplied.
SuppliedValue(tokens, i, k) ==
  IF InlineLong(tokens[i], k) THEN InlineValue(tokens[i], k)
  ELSE IF InlineShort(tokens[i], k) THEN SubStr(tokens[i], 2)
  ELSE tokens[i + 1]

\* The dashes and the name of the option as the token writes them.
WrittenOption(t, k) ==
  IF InlineLong(t, k) THEN Long(declared[k].name)
  ELSE IF InlineShort(t, k) THEN SubSeq(t, 1, 2)
  ELSE t

\* C11: when the main pass comes to a token that supplies a value to a
\* non-flag option and the option's parse of that value fails, the call
\* returns INVALID_VALUE with "Invalid value for option: " + the option as
\* written + " = " + the value string.
C11_InvalidValueMessage ==
  \A i \in visited : \A k \in Options :
    (/\ SuppliesValue(argv, i, k)
     /\ \E n \in EntriesOf(log, i) : ~log[n].ok)
      => /\ result = "INVALID_VALUE"
         /\ \A n \in EntriesOf(log, i) :
              log[n].raw = SuppliedValue(argv, i, k)
         /\ lastError =
              <<"Invalid value for option: ">> \o WrittenOption(argv[i], k)
                \o <<" = ">> \o SuppliedValue(argv, i, k)

\* `-c` `-5` after another token: the validator of count rejects -5, which
\* came from the next token.
C11_Witness ==
  /\ calls = 1
  /\ result = "INVALID_VALUE"
  /\ \E i \in visited :
       /\ i >= 2
       /\ i < Len(argv)
       /\ argv[i] = Short(<<"c">>)
       /\ argv[i + 1] = <<"-", "5">>
  /\ lastError = <<"Invalid value for option: ", "-", "c", " = ", "-", "5">>

\* ------------------------------------------------------------------------
\* C12
\* ------------------------------------------------------------------------

\* Token j was consumed as the value of the option token before it.
ConsumedAsValue(j) == \E n \in 1..Len(log) : log[n].src = j /\ log[n].tok # j

\* The positional tokens of the call: empty or not starting with `-`, and
\* not consumed as an option's value.
FreePositionals ==
  {j \in 1..Len(argv) : PositionalLike(argv[j]) /\ ~ConsumedAsValue(j)}

\* The m-th element of a set of token indices, in token order.
NthOf(P, m) == CHOOSE j \in P : Cardinality({h \in P : h <= j}) = m

\* The value that the declaration d holds after it has accepted raw.
Converted(d, raw) ==
  ArgParse(MakeArgument(d.kind, d.name, <<>>, d.required, d.defaultValue),
           raw).arg.value

MainPassed == stage \in {"positional", "excess", "required", "done"}

\* No declared positional has rejected the token bound to it.
PositionalsAccepted ==
  \A n \in 1..Len(log) : log[n].target[1] = "pos" => log[n].ok

\* The declared positionals for which no positional token is left.
Unbound == {m \in Positionals : m > Cardinality(FreePositionals)}

C14_TooManyPositionals ==
  (/\ MainPassed
   /\ PositionalsAccepted
   /\ Cardinality(FreePositionals) > Len(declaredPositional))
    => /\ stage = "excess"
       /\ result = "INVALID_VALUE"
       /\ lastError = <<"Too many positional arguments">>

\* Two positional tokens for one declared positional, while a required
\* option is not set.
C14_Witness ==
  /\ calls = 1
  /\ result = "INVALID_VALUE"
  /\ lastError = <<"Too many positional arguments">>
  /\ Len(declaredPositional) = 1
  /\ Cardinality(FreePositionals) = 2
  /\ positionalArguments[1].isSet
  /\ MissingRequired # {}

\* ------------------------------------------------------------------------
\* C15
\* ------------------------------------------------------------------------

\* Entry n of the log is the latest parse call on option k.
LatestOn(n, k) == \A h \in EntriesOn(log, k) : h <= n

\* What option k held when entry n of the log was made: the value of the
\* latest accepted parse call on k before n, else the declared default.
HeldBefore(n, k) ==
  IF \E h \in EntriesOn(log, k) : h < n /\ log[h].ok
  THEN Converted(declared[k],
                 log[CHOOSE h \in EntriesOn(log, k) :
                       /\ h < n /\ log[h].ok
                       /\ \A g \in EntriesOn(log, k) :
                            (g < n /\ log[g].ok) => g <= h].raw)
  ELSE declared[k].defaultValue

\* C15: for an option of an integer kind, a parse call on the decimal string
\* of the kind's minimum or maximum is accepted (by an option without
\* validator) and the option then holds exactly that value; a parse call on the string of maximum + 1 or of
\* minimum - 1 is rejected, the enclosing call returns INVALID_VALUE and the
\* option holds what it held before (no truncated or wrapped value).
C15_IntegerLimits ==
  \A k \in Options : \A n \in EntriesOn(log, k) :
    declared[k].kind \in IntKinds =>
      /\ \A v \in {LimitMin(declared[k].kind), LimitMax(declared[k].kind)} :
           (log[n].raw = DecimalString(v) /\ arguments[k].validator = "none") =>
             /\ log[n].ok
             /\ LatestOn(n, k) =>
                  arguments[k].isSet /\ arguments[k].value = v
      /\ log[n].raw \in {AboveMax(declared[k].kind), BelowMin(declared[k].kind)}
           => /\ ~log[n].ok
              /\ result = "INVALID_VALUE"
              /\ arguments[k].value = HeldBefore(n, k)

\* The 64-bit signed option took its minimum, then its maximum + 1 was
\* rejected and the minimum is still there.
C15_Witness ==
  /\ calls = 1
  /\ result = "INVALID_VALUE"
  /\ argv = << LongEq(Name.i64, DecimalString(LimitMin("int64"))),
               LongEq(Name.i64, AboveMax("int64")) >>
  /\ \E k \in Options :
       /\ declared[k].name = Name.i64
       /\ arguments[k].isSet
       /\ arguments[k].value = MkNum(TRUE, INT64_MIN)

\* ------------------------------------------------------------------------
\* C16
\* ------------------------------------------------------------------------

\* C16: a parse call on an option of an unsigned kind with a value string
\* whose first character is `-` is rejected and the enclosing call returns
\* INVALID_VALUE, whatever the digits after it are.
C16_UnsignedRejectsMinus ==
  \A k \in Options : \A n \in EntriesOn(log, k) :
    (/\ declared[k].kind \in {"uint32", "uint64"}
     /\ log[n].raw # <<>>
     /\ log[n].raw[1] = "-")
      => /\ ~log[n].ok
         /\ result = "INVALID_VALUE"
         /\ arguments[k].value = HeldBefore(n, k)

\* The 32-bit unsigned option was given -18446744073709551615, which the
\* conversion turns into 1.
C16_Witness ==
  /\ calls = 1
  /\ result = "INVALID_VALUE"
  /\ Len(argv) = 2
  /\ argv[2] = LongEq(Name.u32, MinusUint64Max)
  /\ StrToULL(MinusUint64Max).val = MkNum(FALSE, <<1>>)
  /\ ~StrToULL(MinusUint64Max).erange
  /\ \E k \in Options : declared[k].name = Name.u32 /\ ~arguments[k].isSet

\* ------------------------------------------------------------------------
\* C17
\* ------------------------------------------------------------------------

\* The dashes and the name that a message about the option token t starts
\* with.
TokenLabel(t) ==
  IF DoubleDash(t) THEN Long(WrittenLongName(t))
  ELSE IF Len(t) >= 2 THEN SubSeq(t, 1, 2)
  ELSE t

\* msg is a message that a call on tokens can have produced: one of the
\* messages without a token in it, or a message about one of the tokens.
MessageOfCall(msg, tokens) ==
  \/ msg = <<"Too many positional arguments">>
  \/ \E k \in Options :
       msg = <<"Missing required option: --">> \o declared[k].name
  \/ \E m \in Positionals :
       msg = <<"Missing required positional argument: ">>
               \o declaredPositional[m].name
  \/ \E i \in 1..Len(tokens) :
       /\ msg[1] \in {"Unknown option: ", "Missing value for option: ",
                      "Invalid value for option: ", "Invalid value for flag: "}
       /\ StartsWith(Tail(msg), TokenLabel(tokens[i]))
  \/ \E i \in 1..Len(tokens) : \E m \in Positionals :
       msg = <<"Invalid value for positional argument: ">>
               \o declaredPositional[m].name \o <<" = ">> \o tokens[i]

\* C17 as stated: after a parse call the message is empty exactly when the
\* call returned SUCCESS.
C17_MessageIffNotSuccess ==
  calls >= 1 => (result = "SUCCESS" <=> lastError = <<>>)

\* C17, amended: after a parse call the message is empty when the call
\* returned SUCCESS or HELP_REQUESTED, whatever message an earlier call
\* left; when it returned UNKNOWN_OPTION, MISSING_VALUE or INVALID_VALUE the
\* message is not empty and is a message of this call.
C17_MessageIffError ==
  [][ParseStep =>
       IF result' \in {"SUCCESS", "HELP_REQUESTED"}
       THEN lastError' = <<>>
       ELSE /\ result' \in {"UNKNOWN_OPTION", "MISSING_VALUE", "INVALID_VALUE"}
            /\ lastError' # <<>>
            /\ MessageOfCall(lastError', argv')]_vars

\* A second call returned HELP_REQUESTED with an empty message, after a
\* first call in which the validator of count had rejected -5.
C17_Witness ==
  /\ calls = 2
  /\ result = "HELP_REQUESTED"
  /\ lastError = <<>>
  /\ \E k \in Options :
       /\ declared[k].name = Name.count
       /\ ~arguments[k].isSet
       /\ arguments[k].value = MkNum(TRUE, <<5>>)

\* ------------------------------------------------------------------------
\* C18
\* ------------------------------------------------------------------------

\* The MISSING_VALUE messages that would name the flag declared by k.
MissingMessagesOf(k) ==
  { <<"Missing required option: --">> \o declared[k].name,
    <<"Missing value for option: ">> \o Long(declared[k].name),
    <<"Missing value for option: ">> \o Short(declared[k].shortName) }

\* C18: a flag reports isRequired() false whatever `required` it was
\* declared with, and no call returns MISSING_VALUE on account of a flag,
\* whether the tokens name the flag or not.
C18_FlagNeverRequired ==
  \A k \in Options :
    Flag(k) =>
      /\ ~arguments[k].isRequired
      /\ result = "MISSING_VALUE" => lastError \notin MissingMessagesOf(k)
      /\ (stage = "done" /\ MissingRequired = {}) => result = "SUCCESS"

\* A flag declared required that the tokens do not name: the call succeeds.
C18_Witness ==
  /\ calls = 1
  /\ argv # <<>>
  /\ result = "SUCCESS"
  /\ \E k \in Options :
       /\ Flag(k)
       /\ declared[k].required
       /\ ~Mentions(argv, declared[k])
       /\ ~arguments[k].isSet

\* ------------------------------------------------------------------------
\* C19
\* ------------------------------------------------------------------------

\* The digits m rounded to at most prec places: [mant, carry], carry = 1
\* when the rounding produced one more leading digit.
RoundDigits(m, prec) ==
  IF Len(m) <= prec THEN [mant |-> m, carry |-> 0]
  ELSE IF m[prec + 1] < 5
  THEN [mant |-> StripTrailingZeros(SubSeq(m, 1, prec)), carry |-> 0]
  ELSE [mant |-> StripTrailingZeros(SubSeq(MagSucc(SubSeq(m, 1, prec)), 1, prec)),
        carry |-> IF Len(MagSucc(SubSeq(m, 1, prec))) > prec THEN 1 ELSE 0]

\* The characters of the digits m.
DigitString(m) == [n \in 1..Len(m) |-> DigitChars[m[n] + 1]]

\* The exponent suffix of the %g scientific style: sign and at least two
\* digits.
ExponentString(x) ==
  <<"e", IF x < 0 THEN "-" ELSE "+">>
    \o (IF (IF x < 0 THEN -x ELSE x) < 10 THEN <<"0">> ELSE <<>>)
    \o DecimalString(MkNum(FALSE, StripZeros(
         << (IF x < 0 THEN -x ELSE x) \div 100,
            ((IF x < 0 THEN -x ELSE x) \div 10) % 10,
            (IF x < 0 THEN -x ELSE x) % 10 >>)))

\* The digits m of the value 0.m * 10^exp written in the %g style: the
\* scientific style when the decimal exponent x = exp - 1 is below -4 or
\* not below prec, the fixed style otherwise, without trailing zeros.
GStyle(m, exp, prec) ==
  IF exp - 1 < -4 \/ exp - 1 >= prec
  THEN <<DigitChars[m[1] + 1]>>
         \o (IF Len(m) > 1 THEN <<".">> \o DigitString(Tail(m)) ELSE <<>>)
         \o ExponentString(exp - 1)
  ELSE IF exp <= 0
  THEN <<"0", ".">> \o [k \in 1..(-exp) |-> "0"] \o DigitString(m)
  ELSE IF Len(m) <= exp
  THEN DigitString(m) \o [k \in 1..(exp - Len(m)) |-> "0"]
  ELSE DigitString(SubSeq(m, 1, exp)) \o <<".">>
         \o DigitString(SubSeq(m, exp + 1, Len(m)))

\* Argument<float>::formatFloat (snprintf "%.6g"),
\* Argument<double>::formatDouble (snprintf "%.15g"); the value is taken as its decimal, so the digits beyond the
\* precision are rounded half up.
FormatFloating(v, prec) ==
  IF v.mant = <<>> THEN <<"0">>
  ELSE LET r == RoundDigits(v.mant, prec)
       IN (IF v.neg THEN <<"-">> ELSE <<>>)
            \o GStyle(r.mant, v.exp + r.carry, prec)

\* Argument<T>::hasDefaultValue: reads value_, the current value.
HasDefaultValue(a) ==
  CASE a.kind = "bool" -> a.value
    [] a.kind = "string" -> a.value # <<>>
    [] a.kind \in IntKinds -> a.value.mag # <<>>
    [] OTHER -> a.value.mant # <<>>

\* Argument<T>::getDefaultString: reads value_, the current value.
GetDefaultString(a) ==
  CASE a.kind = "bool" -> IF a.value THEN <<"true">> ELSE <<>>
    [] a.kind = "string" -> a.value
    [] a.kind \in IntKinds -> DecimalString(a.value)
    [] a.kind = "float" -> FormatFloating(a.value, 6)
    [] OTHER -> FormatFloating(a.value, 15)

\* The default part of the line ArgumentBase::printHelp writes.
DefaultAnnotation(a) ==
  IF HasDefaultValue(a) /\ GetDefaultString(a) # <<>>
  THEN <<" (default: ">> \o GetDefaultString(a) \o <<")">>
  ELSE <<>>

\* The annotations of all arguments of the two lists.
Annotations(args) == [k \in DOMAIN args |-> DefaultAnnotation(args[k])]

\* C19: the default annotations that printHelp renders are the same before
\* and after every parse call, whatever the call stored.
C19_ParseKeepsDefaultAnnotation ==
  [][ParseStep =>
       /\ Annotations(arguments') = Annotations(arguments)
       /\ Annotations(positionalArguments')
            = Annotations(positionalArguments)]_vars

\* ------------------------------------------------------------------------
\* C20
\* ------------------------------------------------------------------------

\* The first token of the call is the bare `-` and no token asks for help.
BareDashFirst ==
  /\ calls >= 1
  /\ argv # <<>>
  /\ argv[1] = <<"-">>
  /\ ~HelpRequested(argv)

\* C20: an option declared with the empty short name is in the long-name
\* map only, so the short-name map has no entry for the empty name, and a
\* call whose first token is the bare `-` returns UNKNOWN_OPTION.
C20_EmptyShortNameNotRegistered ==
  /\ <<>> \notin DOMAIN shortNameMap
  /\ BareDashFirst =>
       /\ result = "UNKNOWN_OPTION"
       /\ log = <<>>

\* ------------------------------------------------------------------------
\* C21
\* ------------------------------------------------------------------------

C22_NextTokenIsValue ==
  \A i \in visited : \A k \in Options :
    (BareOption(argv[i], k) /\ i < Len(argv)) =>
      /\ \A n \in EntriesOf(log, i) :
           /\ log[n].target = <<"opt", k>>
           /\ log[n].raw = argv[i + 1]
           /\ log[n].src = i + 1
      /\ Cardinality(EntriesOf(log, i)) = 1
      /\ i + 1 \notin visited
      /\ EntriesOf(log, i + 1) = {}
      /\ i + 1 \notin FreePositionals

\* `--input` followed by a token that spells a declared flag: the token is
\* the value of input, and the flag is not set by it.
C22_Witness ==
  /\ calls = 1
  /\ result = "SUCCESS"
  /\ \E i \in visited : \E k, f \in Options :
       /\ i < Len(argv)
       /\ BareOption(argv[i], k)
       /\ Flag(f)
       /\ argv[i + 1] = Short(declared[f].shortName)
       /\ arguments[k].isSet
       /\ arguments[k].value = argv[i + 1]
       /\ ~arguments[f].isSet

\* ------------------------------------------------------------------------
\* C23
\* ------------------------------------------------------------------------

\* The call returned one of the three error codes.
Failed == calls >= 1 /\ result \in {"UNKNOWN_OPTION", "MISSING_VALUE", "INVALID_VALUE"}

\* Entry n is the last accepted parse call on its target.
LastAccepted(n) ==
  /\ log[n].ok
  /\ \A h \in (n + 1)..Len(log) : log[h].target = log[n].target => ~log[h].ok

\* C23: when a call fails, every argument that an earlier token of the call
\* has set holds the value that token gave it and is set (no rollback), and
\* the failing parse call, if any, is the last parse call of the call.
C23_FailureKeepsEarlierEffects ==
  Failed =>
    /\ \A n \in 1..Len(log) : ~log[n].ok => n = Len(log)
    /\ \A n \in 1..Len(log) :
         LastAccepted(n) =>
           IF log[n].target[1] = "opt"
           THEN /\ arguments[log[n].target[2]].isSet
                /\ arguments[log[n].target[2]].value =
                     Converted(declared[log[n].target[2]], log[n].raw)
           ELSE /\ positionalArguments[log[n].target[2]].isSet
                /\ positionalArguments[log[n].target[2]].value =
                     Converted(declaredPositional[log[n].target[2]], log[n].raw)

\* ------------------------------------------------------------------------
\* C24
\* ------------------------------------------------------------------------

\* A single-dash token with two or more characters after the dash, whose
\* first character is not the short name of a non-flag option and some
\* character of which is not the short name of a flag.
MixedShort(t) ==
  /\ SingleDash(t)
  /\ Len(t) >= 3
  /\ ~\E k \in Options : InlineShort(t, k)
  /\ ~GroupedFlags(t)

\* C24: a mixed single-dash token that the main pass comes to is one short
\* name, the whole remainder, with no inline value: the only parse call it
\* can make is on the option that has the remainder as short name, a
\* non-flag one taking the next token as value, so none of the flags its
\* characters name is set by it; when no option has the remainder as short
\* name the call returns UNKNOWN_OPTION naming the whole token.
C24_MixedShortIsOneName ==
  \A i \in visited :
    MixedShort(argv[i]) =>
      /\ \A n \in EntriesOf(log, i) :
           \E k \in Options :
             /\ ShortOwner(k)
             /\ declared[k].shortName = SubStr(argv[i], 1)
             /\ log[n].target = <<"opt", k>>
             /\ NonFlag(k) =>
                  /\ i < Len(argv)
                  /\ log[n].src = i + 1
                  /\ log[n].raw = argv[i + 1]
      /\ (\A k \in Options : declared[k].shortName # SubStr(argv[i], 1)) =>
           /\ EntriesOf(log, i) = {}
           /\ result = "UNKNOWN_OPTION"
           /\ lastError = <<"Unknown option: ">> \o argv[i]

\* `-vx`, v being a flag and vx the short name of a text option: the next
\* token became the value of that option and the flag is not set.
C24_Witness ==
  /\ calls = 1
  /\ result = "SUCCESS"
  /\ \E i \in visited : \E k, f \in Options :
       /\ i < Len(argv)
       /\ MixedShort(argv[i])
       /\ declared[k].shortName = SubStr(argv[i], 1)
       /\ arguments[k].isSet
       /\ arguments[k].value = argv[i + 1]
       /\ Flag(f)
       /\ ShortOwner(f)
       /\ declared[f].shortName = <<argv[i][2]>>
       /\ ~arguments[f].isSet

\* ------------------------------------------------------------------------
\* C25
\* ------------------------------------------------------------------------

\* Token t resolves to the flag declared by k through the single path: its
\* long name (with or without an inline value), or a single-dash token
\* whose whole remainder is its short name and which is not grouped flags.
SingleFlag(t, k) ==
  /\ Flag(k)
  /\ \/ DoubleDash(t) /\ LongOwner(k) /\ WrittenLongName(t) = declared[k].name
     \/ /\ SingleDash(t)
        /\ ShortOwner(k)
        /\ SubStr(t, 1) = declared[k].shortName
        /\ ~GroupedFlags(t)
        /\ ~\E h \in Options : InlineShort(t, h)

\* C25: a token that resolves to a flag through the single path, when the
\* main pass comes to it, makes one parse call, on that flag, which
\* succeeds; the flag is true and set; nothing is taken from the next
\* token, which the pass visits on its own.
C25_FlagTakesNoValue ==
  \A i \in visited : \A k \in Options :
    SingleFlag(argv[i], k) =>
      /\ \E n \in 1..Len(log) :
           /\ EntriesOf(log, i) = {n}
           /\ log[n].target = <<"opt", k>>
           /\ log[n].src = i
           /\ log[n].ok
      /\ arguments[k].isSet
      /\ arguments[k].value = TRUE
      /\ IF i < Len(argv) THEN i + 1 \in visited ELSE stage # "main"

\* A flag by its long name, followed by a token that is then bound or
\* applied on its own.
C25_Witness ==
  /\ calls = 1
  /\ \E i \in visited : \E k \in Options :
       /\ i < Len(argv)
       /\ SingleFlag(argv[i], k)
       /\ DoubleDash(argv[i])
       /\ i + 1 \in visited
       /\ EntriesOf(log, i + 1) # {}
       /\ arguments[k].isSet

\* ------------------------------------------------------------------------
\* C26
\* ------------------------------------------------------------------------

\* Index of the first character of s after its optional sign.
AfterSign(s) == IF s # <<>> /\ s[1] \in {"+", "-"} THEN 2 ELSE 1

\* s is a base-10 numeral: an optional sign, then one or more digits, and
\* nothing else.
IsNumeral(s) ==
  /\ AfterSign(s) <= Len(s)
  /\ \A j \in AfterSign(s)..Len(s) : IsDigit(s[j])

\* The mathematical value of the numeral s.
NumeralValue(s) ==
  MkNum(s[1] = "-", StripZeros(DigitsOf(s, AfterSign(s), Len(s) + 1)))

\* The declaration that a parse call was made on.
DeclarationOf(target) ==
  IF target[1] = "opt" THEN declared[target[2]]
  ELSE declaredPositional[target[2]]

\* The argument that a parse call was made on.
ArgumentOf(target) ==
  IF target[1] = "opt" THEN arguments[target[2]]
  ELSE positionalArguments[target[2]]

\* C26: a parse call on an argument of an integer kind succeeds only if the
\* whole string is a base-10 numeral; on any other string (the empty one,
\* trailing characters, leading blanks) it fails and the call returns
\* INVALID_VALUE; the value stored by an accepted call is the value of the
\* numeral.
C26_IntegerParseWholeNumeral ==
  \A n \in 1..Len(log) :
    DeclarationOf(log[n].target).kind \in IntKinds =>
      /\ log[n].ok => IsNumeral(log[n].raw)
      /\ ~IsNumeral(log[n].raw) => result = "INVALID_VALUE"
      /\ (LastAccepted(n) /\ IsNumeral(log[n].raw)) =>
           ArgumentOf(log[n].target).value = NumeralValue(log[n].raw)

\* ------------------------------------------------------------------------
\* C27
\* ------------------------------------------------------------------------

\* Token t reaches declaration k by a name that k is the latest declaration
\* of: its long name, or (whole remainder, first character of `-cREST`, or
\* one of grouped characters) its short name.
ReachedByOwnedName(t, k) ==
  IF DoubleDash(t)
  THEN LongOwner(k) /\ declared[k].name = WrittenLongName(t)
  ELSE /\ ShortOwner(k)
       /\ \/ declared[k].shortName = SubStr(t, 1)
          \/ \E j \in 2..Len(t) : declared[k].shortName = <<t[j]>>

\* Some other declaration uses the long name or the short name of k.
Collides(k) ==
  \E j \in Options \ {k} :
    \/ declared[j].name = declared[k].name
    \/ declared[j].shortName # <<>> /\ declared[j].shortName = declared[k].shortName

\* C27: every parse call the tokens make on an option is on the latest
\* declaration of the name the token uses, so an earlier declaration of a
\* colliding name is never reached through it; an option on which the call
\* made no parse call is as it was constructed.
C27_LastDeclarationWins ==
  calls = 1 =>
    /\ \A n \in 1..Len(log) :
         log[n].target[1] = "opt" =>
           ReachedByOwnedName(argv[log[n].tok], log[n].target[2])
    /\ \A k \in Options :
         EntriesOn(log, k) = {} =>
           arguments[k] =
             [MakeArgument(declared[k].kind, declared[k].name,
                           declared[k].shortName, declared[k].required,
                           declared[k].defaultValue)
                EXCEPT !.validator = arguments[k].validator]

\* The long name declared twice and the short name declared twice, both
\* used: the later declarations are set, the earlier ones are not.
C27_Witness ==
  /\ calls = 1
  /\ result = "SUCCESS"
  /\ \E k, j, f, g \in Options :
       /\ j < k
       /\ declared[j].name = declared[k].name
       /\ arguments[k].isSet
       /\ ~arguments[j].isSet
       /\ g < f
       /\ declared[g].shortName = declared[f].shortName
       /\ Collides(g)
       /\ arguments[f].isSet
       /\ ~arguments[g].isSet

\* ------------------------------------------------------------------------
\* C28
\* ------------------------------------------------------------------------

\* The value that a holds satisfies the validator of a.
HoldsValidValue(a) ==
  CASE a.validator = "none" -> TRUE
    [] a.kind \in IntKinds -> ValidateNum(a.validator, a.value)
    [] a.kind \in FloatKinds -> ValidateDec(a.validator, a.value)
    [] a.kind = "string" -> ValidateStr(a.validator, a.value)
    [] OTHER -> TRUE

\* C28: in every state, every argument that reports isSet() holds a value
\* that its validator accepts.
C28_SetValueIsValid ==
  /\ \A k \in 1..Len(arguments) :
       arguments[k].isSet => HoldsValidValue(arguments[k])
  /\ \A k \in 1..Len(positionalArguments) :
       positionalArguments[k].isSet => HoldsValidValue(positionalArguments[k])

\* ------------------------------------------------------------------------
\* C29
\* ------------------------------------------------------------------------

\* The option declared by k as it was when the first call began.
Constructed(k) ==
  [MakeArgument(declared[k].kind, declared[k].name, declared[k].shortName,
                declared[k].required, declared[k].defaultValue)
     EXCEPT !.validator = arguments[k].validator]

\* C29: in the first call, whether a parse call on a non-flag option is
\* accepted depends on its value string alone, not on earlier occurrences
\* of the option among the tokens; and when the last occurrence is accepted
\* the option is set and holds the value of that last occurrence.
C29_LastOccurrenceWins ==
  calls = 1 =>
    \A k \in Options : \A n \in EntriesOn(log, k) :
      NonFlag(k) =>
        /\ log[n].ok = ArgParse(Constructed(k), log[n].raw).ok
        /\ (log[n].ok /\ \A h \in EntriesOn(log, k) : h <= n) =>
             /\ arguments[k].isSet
             /\ arguments[k].value =
                  ArgParse(Constructed(k), log[n].raw).arg.value

\* An option given twice, in two forms and with two values, in a call that
\* succeeds: it holds the second value.
C29_Witness ==
  /\ calls = 1
  /\ result = "SUCCESS"
  /\ \E k \in Options : \E n, m \in EntriesOn(log, k) :
       /\ NonFlag(k)
       /\ n < m
       /\ log[n].raw # log[m].raw
       /\ DoubleDash(argv[log[n].tok]) # DoubleDash(argv[log[m].tok])
       /\ arguments[k].value = Converted(declared[k], log[m].raw)
       /\ arguments[k].value # Converted(declared[k], log[n].raw)

\* ------------------------------------------------------------------------
\* C30
\* ------------------------------------------------------------------------

\* Token t names a non-flag option without giving its value: the value
\* would be the next token.
TakesNextToken(t) ==
  \E k \in Options :
    /\ NonFlag(k)
    /\ \/ LongOwner(k) /\ t = Long(declared[k].name)
       \/ /\ SingleDash(t)
          /\ ShortOwner(k)
          /\ SubStr(t, 1) = declared[k].shortName
          /\ ~\E h \in Options : InlineShort(t, h)
          /\ ~GroupedFlags(t)

\* The token list with the tokens i and i + 1 exchanged.
Exchanged(tokens, i) ==
  [n \in 1..Len(tokens) |->
     IF n = i THEN tokens[i + 1] ELSE IF n = i + 1 THEN tokens[i] ELSE tokens[n]]

\* C30: for a token list in which no non-flag option takes its value from
\* the next token, exchanging a positional token with an option token next
\* to it gives the same result code, the same message and the same value
\* and isSet of every argument.  Every reordering that keeps the order of
\* the positional tokens and the order of the option tokens is a sequence
\* of such exchanges.
C30_InterleavingIsFree ==
  [][ParseStep =>
       ((\A i \in 1..Len(argv') : ~TakesNextToken(argv'[i])) =>
          \A i \in 1..(Len(argv') - 1) :
            PositionalLike(argv'[i]) # PositionalLike(argv'[i + 1]) =>
              SameOutcome(ParseInstead(Exchanged(argv', i))))]_vars

\* Positional, option with inline value, positional: the call succeeds with
\* both positionals and the option set.
C30_Witness ==
  /\ calls = 1
  /\ result = "SUCCESS"
  /\ Len(argv) = 3
  /\ \A i \in 1..3 : ~TakesNextToken(argv[i])
  /\ PositionalLike(argv[1])
  /\ ~PositionalLike(argv[2])
  /\ PositionalLike(argv[3])
  /\ argv[1] # argv[3]
  /\ \E k \in Options : NonFlag(k) /\ arguments[k].isSet
  /\ Len(positionalArguments) = 2
  /\ positionalArguments[2].isSet

====
